---- MODULE Spec2Model ----
(***************************************************************************)
(* Generation engine of greedytile: the executor state machine             *)
(* (GreedyStochastic), the grid with its dynamic extension, the viable-    *)
(* tile computation, the forced pipeline, the contradiction scan and the   *)
(* deadlock resolver.                                                      *)
(*                                                                         *)
(* The floating-point fields (tile_probabilities, feasibility) are kept as *)
(* formal products of the factors multiplied into them, and an entropy is  *)
(* named by the probabilities it was computed from. They                   *)
(* feed the weights of the stochastic position and tile samplers: a        *)
(* weighted draw from the seeded generator is modelled as a choice among   *)
(* the candidates the integer part of the computation leaves.              *)
(***************************************************************************)
EXTENDS Integers, Sequences, FiniteSets, TLC

\* ------------------------------------------------------------------ bounds
\* run_iteration calls explored with generation bounds, and without them
MaxIterations == 12
MaxUnboundedIterations == 6

\* ------------------------------------------------------- program constants
ADJACENCY_CANDIDATES_CONSIDERED == 20
BASE_REMOVAL_RADIUS == 0
MAX_REMOVAL_RADIUS == 6
ADJACENCY_LEVELS == 2
U8_MAX == 255

\* AlgorithmConfig.grid_extension_radius of the modelled runs
grid_extension_radius == 1
include_rotations == FALSE
include_reflections == FALSE

\* The exemplar image (ImageProcessor.source_data): colour ids, 1-based
Exemplar ==
  << <<1, 1, 2, 2, 1, 1>>,
     <<1, 1, 2, 2, 1, 1>>,
     <<1, 1, 2, 2, 1, 1>> >>

\* ---------------------------------------------------------------- helpers
Min(a, b) == IF a < b THEN a ELSE b
Max(a, b) == IF a > b THEN a ELSE b
SatSub(a, b) == IF a > b THEN a - b ELSE 0
Abs(a) == IF a < 0 THEN -a ELSE a
Range(s) == {s[i] : i \in DOMAIN s}

RECURSIVE SumTo(_, _)
SumTo(f, n) == IF n = 0 THEN 0 ELSE f[n] + SumTo(f, n - 1)

\* ------------------------------------------------------- tiles (tiles.rs)
TileIdx == 1..3

\* the 3x3 window of the exemplar with top-left corner (i, j), 1-based; a cell
\* the exemplar does not have reads 0 (source_data.get(..).unwrap_or(0))
WindowAt(img, i, j) ==
  [ti \in TileIdx |->
     [tj \in TileIdx |->
        IF i + ti - 1 <= Len(img) /\ j + tj - 1 <= Len(img[1])
        THEN img[i + ti - 1][j + tj - 1]
        ELSE 0]]

rotate_90(tile) ==
  [i \in TileIdx |-> [j \in TileIdx |-> tile[4 - j][i]]]

reflect(tile) ==
  [i \in TileIdx |-> [j \in TileIdx |-> tile[i][4 - j]]]

RECURSIVE deduplicate_tiles(_, _)
deduplicate_tiles(tiles, unique_tiles) ==
  IF tiles = << >> THEN unique_tiles
  ELSE deduplicate_tiles(Tail(tiles),
         IF Head(tiles) \in Range(unique_tiles) THEN unique_tiles
         ELSE Append(unique_tiles, Head(tiles)))

Transforms(tile, rotations, reflections) ==
  LET Reflections(rot) ==
        IF reflections
        THEN rot \o [k \in 1..Len(rot) |-> reflect(rot[k])]
        ELSE rot
  IN Reflections(IF rotations
                 THEN << tile, rotate_90(tile), rotate_90(rotate_90(tile)),
                         rotate_90(rotate_90(rotate_90(tile))) >>
                 ELSE << tile >>)

RECURSIVE FlattenTransforms(_, _, _)
FlattenTransforms(tiles, rotations, reflections) ==
  IF tiles = << >> THEN << >>
  ELSE Transforms(Head(tiles), rotations, reflections)
         \o FlattenTransforms(Tail(tiles), rotations, reflections)

\* TileExtractor::extract_tiles with tile_size 3
extract_tiles(img, rotations, reflections) ==
  LET Windows(nr, nc) ==
        [k \in 1..(nr * nc) |->
           WindowAt(img, ((k - 1) \div nc) + 1, ((k - 1) % nc) + 1)]
      Unique(base_tiles) ==
        IF rotations \/ reflections
        THEN deduplicate_tiles(FlattenTransforms(base_tiles, rotations, reflections), << >>)
        ELSE deduplicate_tiles(base_tiles, << >>)
  IN Unique(Windows(SatSub(Len(img), 3) + 1, SatSub(Len(img[1]), 3) + 1))

source_tiles == extract_tiles(Exemplar, include_rotations, include_reflections)

unique_cell_count ==
  Cardinality({Exemplar[i][j] : i \in 1..Len(Exemplar), j \in 1..Len(Exemplar[1])})

Colors == 1..unique_cell_count

\* membership vector of a 3x3 pattern: bit k is 1 iff colour k occurs in it
convert_tile_to_membership_booleans(tile) ==
  [k \in Colors |->
     IF \E i \in TileIdx, j \in TileIdx : tile[i][j] = k THEN 1 ELSE 0]

\* variant of build_boolean_reference_rules that stores a tile only under its
\* own membership vector
build_boolean_reference_rules_exact(tiles, pattern) ==
  {index \in 1..Len(tiles) :
     \A k \in Colors :
        pattern[k] = convert_tile_to_membership_booleans(tiles[index])[k]}

\* TileExtractor::build_boolean_reference_rules: the 1-based tile ids it stores
\* under a mask (no entry = no ids)
build_boolean_reference_rules(tiles, pattern) ==
  {index \in 1..Len(tiles) :
     \A k \in Colors :
        pattern[k] = 0
        \/ convert_tile_to_membership_booleans(tiles[index])[k] = 1}

\* StepData.tile_compatibility_rules: the rules built for the exemplar
tile_compatibility_rules(pattern) ==
  build_boolean_reference_rules(source_tiles, pattern)

\* wildcard match of a pattern (0 = any) against a source tile
PatternMatches(tile_pattern, source_tile) ==
  \A i \in TileIdx, j \in TileIdx :
     tile_pattern[i][j] = 0 \/ tile_pattern[i][j] = source_tile[i][j]

find_compatible_values_at_offset_bitset(tile_pattern, target_row, target_col) ==
  LET Values(tiles, potential_sources) ==
        {tiles[ref][target_row + 1][target_col + 1] :
           ref \in {r \in potential_sources : PatternMatches(tile_pattern, tiles[r])}}
        \cap Colors
  IN Values(source_tiles,
            tile_compatibility_rules(convert_tile_to_membership_booleans(tile_pattern)))

\* ------------------------------------------------- grid (grid.rs, extension.rs)
Cells(rows, cols) == (0..(rows - 1)) \X (0..(cols - 1))

NoBounds == [some |-> FALSE, min |-> <<0, 0>>, max |-> <<0, 0>>]

\* BoundingBox::contains
contains(b, pos) ==
  /\ pos[1] >= b.min[1]
  /\ pos[1] <= b.max[1]
  /\ pos[2] >= b.min[2]
  /\ pos[2] <= b.max[2]

\* A floating-point cell is kept as the formal product it equals: a set of
\* <<factor, exponent>> pairs over named factors. The empty product is 1.0,
\* and a product with a 0.0 among its factors is 0.0.
One == {}

Zero == {<< << "zero", 0, 0, 0, 0 >>, 1 >>}

Exponent(x, f) ==
  LET Of(S) == IF S = {} THEN 0 ELSE (CHOOSE q \in S : TRUE)[2]
  IN Of({q \in x : q[1] = f})

WithExponent(x, f, n) ==
  {q \in x : q[1] # f} \cup (IF n = 0 THEN {} ELSE {<< f, n >>})

\* x * f and x / f
Times(x, f) == IF x = Zero THEN Zero ELSE WithExponent(x, f, Exponent(x, f) + 1)
Over(x, f) == IF x = Zero THEN Zero ELSE WithExponent(x, f, Exponent(x, f) - 1)

RECURSIVE GCD(_, _)
GCD(a, b) == IF b = 0 THEN a ELSE GCD(b, a % b)

\* the value a feasibility aggregation stores, sum / count: the fraction in
\* lowest terms (a full sum is 1.0, an empty one 0.0)
Mean(sum, count) ==
  LET Lowest(d) == {<< << "mean", sum \div d, count \div d, 0, 0 >>, 1 >>}
  IN IF sum = 0 THEN Zero
     ELSE IF sum = count THEN One
     ELSE Lowest(GCD(sum, count))

\* the entropy the mean-normalised formula gives for the probabilities of a
\* cell: a value named by the probabilities it was computed from
MeanNormalizedEntropy(tile_probabilities, p) ==
  {<< << "entropy", 0, 0, 0, 0 >>,
      [color \in DOMAIN tile_probabilities |-> tile_probabilities[color][p]] >>}

\* GridState::new
GridState_new(rows, cols) ==
  [ tile_probabilities |-> [c \in Colors |-> [p \in Cells(rows, cols) |-> One]],
    entropy           |-> [p \in Cells(rows, cols) |-> One],
    adjacency_weights |-> [p \in Cells(rows, cols) |-> 1],
    locked_tiles      |-> [p \in Cells(rows, cols) |-> 1],
    feasibility       |-> [p \in Cells(rows, cols) |-> One],
    removal_count     |-> [p \in Cells(rows, cols) |-> 0],
    dimensions        |-> <<rows, cols>>,
    generation_bounds |-> NoBounds ]

\* Extendable::padding_value for f64 (tile_probabilities, entropy, feasibility)
padding_value_f64 == One
\* Extendable::padding_value for u32 (adjacency_weights, locked_tiles)
padding_value_u32 == 1
\* Extendable::padding_value for u8 (removal_count)
padding_value_u8 == 1

\* variant of ExtensionInfo with needs_extension forced to true
ExtensionInfo_forced(offset, pad_left, pad_right, pad_top, pad_bottom) ==
  [ pad_left |-> pad_left, pad_right |-> pad_right,
    pad_top |-> pad_top, pad_bottom |-> pad_bottom,
    new_offset |-> << offset[1] + pad_left, offset[2] + pad_top >>,
    needs_extension |-> TRUE ]

\* ExtensionInfo for the given paddings
ExtensionInfo(offset, pad_left, pad_right, pad_top, pad_bottom) ==
  LET Info(needs_extension) ==
        [ pad_left |-> pad_left, pad_right |-> pad_right,
          pad_top |-> pad_top, pad_bottom |-> pad_bottom,
          new_offset |-> IF needs_extension
                         THEN << offset[1] + pad_left, offset[2] + pad_top >>
                         ELSE offset,
          needs_extension |-> needs_extension ]
  IN Info(pad_left + pad_right + pad_top + pad_bottom > 0)

calculate_extension(current_dims, offset, coordinates, radius) ==
  LET Pads(current_min, current_max, new_min, new_max) ==
        ExtensionInfo(offset,
                      current_min[1] - new_min[1], new_max[1] - current_max[1],
                      current_min[2] - new_min[2], new_max[2] - current_max[2])
      Grow(current_min, current_max) ==
        Pads(current_min, current_max,
             << Min(current_min[1], coordinates[1] - radius),
                Min(current_min[2], coordinates[2] - radius) >>,
             << Max(current_max[1], coordinates[1] + radius),
                Max(current_max[2], coordinates[2] + radius) >>)
  IN Grow(<< -offset[1], -offset[2] >>,
          << -offset[1] + current_dims[1] - 1, -offset[2] + current_dims[2] - 1 >>)

\* variant of constrain_extension that leaves the padding as calculated
constrain_extension_unclamped(dims, info, bounds, offset) == info

\* GridState::constrain_extension
constrain_extension(dims, info, bounds, offset) ==
  LET Clamp(new_min, new_max) ==
        ExtensionInfo(offset,
          IF new_min[1] < bounds.min[1]
          THEN SatSub(info.pad_left, bounds.min[1] - new_min[1])
          ELSE info.pad_left,
          IF new_max[1] > bounds.max[1]
          THEN SatSub(info.pad_right, new_max[1] - bounds.max[1])
          ELSE info.pad_right,
          IF new_min[2] < bounds.min[2]
          THEN SatSub(info.pad_top, bounds.min[2] - new_min[2])
          ELSE info.pad_top,
          IF new_max[2] > bounds.max[2]
          THEN SatSub(info.pad_bottom, new_max[2] - bounds.max[2])
          ELSE info.pad_bottom)
      Corners(current_min) ==
        Clamp(<< current_min[1] - info.pad_left, current_min[2] - info.pad_top >>,
              << current_min[1] + dims[1] - 1 + info.pad_right,
                 current_min[2] + dims[2] - 1 + info.pad_bottom >>)
  IN Corners(<< -offset[1], -offset[2] >>)

\* variant of extend_array_2d that copies the old cells without the shift
extend_array_2d_unshifted(array, old_dims, info, padding_value) ==
  IF ~info.needs_extension THEN array
  ELSE [p \in Cells(old_dims[1] + info.pad_left + info.pad_right,
                    old_dims[2] + info.pad_top + info.pad_bottom) |->
          IF p[1] < old_dims[1] /\ p[2] < old_dims[2]
          THEN array[p]
          ELSE padding_value]

extend_array_2d(array, old_dims, info, padding_value) ==
  IF ~info.needs_extension THEN array
  ELSE [p \in Cells(old_dims[1] + info.pad_left + info.pad_right,
                    old_dims[2] + info.pad_top + info.pad_bottom) |->
          IF /\ p[1] >= info.pad_left /\ p[1] - info.pad_left < old_dims[1]
             /\ p[2] >= info.pad_top  /\ p[2] - info.pad_top < old_dims[2]
          THEN array[<< p[1] - info.pad_left, p[2] - info.pad_top >>]
          ELSE padding_value]

\* variant of extend_if_needed that forgets to extend entropy
extend_if_needed_entropy_kept(g, offset, coordinates, radius) ==
  LET Extend(info) ==
        IF ~info.needs_extension
        THEN [grid |-> g, offset |-> offset, extended |-> FALSE]
        ELSE [grid |->
                [g EXCEPT
                   !.tile_probabilities =
                       [c \in DOMAIN g.tile_probabilities |->
                          extend_array_2d(g.tile_probabilities[c], g.dimensions, info,
                                          padding_value_f64)],
                   !.feasibility =
                       extend_array_2d(g.feasibility, g.dimensions, info,
                                       padding_value_f64),
                   !.adjacency_weights =
                       extend_array_2d(g.adjacency_weights, g.dimensions, info,
                                       padding_value_u32),
                   !.locked_tiles =
                       extend_array_2d(g.locked_tiles, g.dimensions, info,
                                       padding_value_u32),
                   !.removal_count =
                       extend_array_2d(g.removal_count, g.dimensions, info,
                                       padding_value_u8),
                   !.dimensions = << g.dimensions[1] + info.pad_left + info.pad_right,
                                     g.dimensions[2] + info.pad_top + info.pad_bottom >>],
              offset |-> info.new_offset,
              extended |-> TRUE]
      Constrain(info) ==
        Extend(IF g.generation_bounds.some
               THEN constrain_extension(g.dimensions, info, g.generation_bounds, offset)
               ELSE info)
  IN Constrain(calculate_extension(g.dimensions, offset, coordinates, radius))

\* GridState::extend_if_needed: the grid after the call, the offset it returns
\* and whether it extended
extend_if_needed(g, offset, coordinates, radius) ==
  LET Extend(info) ==
        IF ~info.needs_extension
        THEN [grid |-> g, offset |-> offset, extended |-> FALSE]
        ELSE [grid |->
                [g EXCEPT
                   !.tile_probabilities =
                       [c \in DOMAIN g.tile_probabilities |->
                          extend_array_2d(g.tile_probabilities[c], g.dimensions, info,
                                          padding_value_f64)],
                   !.entropy =
                       extend_array_2d(g.entropy, g.dimensions, info, padding_value_f64),
                   !.feasibility =
                       extend_array_2d(g.feasibility, g.dimensions, info,
                                       padding_value_f64),
                   !.adjacency_weights =
                       extend_array_2d(g.adjacency_weights, g.dimensions, info,
                                       padding_value_u32),
                   !.locked_tiles =
                       extend_array_2d(g.locked_tiles, g.dimensions, info,
                                       padding_value_u32),
                   !.removal_count =
                       extend_array_2d(g.removal_count, g.dimensions, info,
                                       padding_value_u8),
                   !.dimensions = << g.dimensions[1] + info.pad_left + info.pad_right,
                                     g.dimensions[2] + info.pad_top + info.pad_bottom >>],
              offset |-> info.new_offset,
              extended |-> TRUE]
      Constrain(info) ==
        Extend(IF g.generation_bounds.some
               THEN constrain_extension(g.dimensions, info, g.generation_bounds, offset)
               ELSE info)
  IN Constrain(calculate_extension(g.dimensions, offset, coordinates, radius))

\* get_region_spans: the half-open index ranges [rs, re) x [cs, ce)
get_region_spans(offset, coordinates, radius) ==
  LET Spans(index) ==
        [ rs |-> IF index[1] - radius < 0 THEN 0 ELSE index[1] - radius,
          cs |-> IF index[2] - radius < 0 THEN 0 ELSE index[2] - radius,
          re |-> IF index[1] + radius + 1 < 0 THEN 0 ELSE index[1] + radius + 1,
          ce |-> IF index[2] + radius + 1 < 0 THEN 0 ELSE index[2] + radius + 1 ]
  IN Spans(<< coordinates[1] + offset[1], coordinates[2] + offset[2] >>)

InGrid(g, p) == p[1] >= 0 /\ p[1] < g.dimensions[1] /\ p[2] >= 0 /\ p[2] < g.dimensions[2]

\* the cells of a span that exist in the grid (Array2::get / get_mut succeed)
SpanCells(g, span) ==
  {p \in Cells(g.dimensions[1], g.dimensions[2]) :
     p[1] >= span.rs /\ p[1] < span.re /\ p[2] >= span.cs /\ p[2] < span.ce}

ToWorld(offset, p) == << p[1] - offset[1], p[2] - offset[2] >>
ToGrid(offset, w) == << w[1] + offset[1], w[2] + offset[2] >>

\* row-major order of grid cells
CellLess(p, q) == p[1] < q[1] \/ (p[1] = q[1] /\ p[2] < q[2])
MinCell(S) == CHOOSE p \in S : \A q \in S : p = q \/ CellLess(p, q)

RECURSIVE RowMajor(_)
RowMajor(S) ==
  IF S = {} THEN << >>
  ELSE LET Rest(m) == << m >> \o RowMajor(S \ {m}) IN Rest(MinCell(S))

\* -------------------------------------------- viable tiles (selection.rs)
\* the visiting order of the nine windows containing a position
WindowOrder ==
  << <<1, 1>>, <<0, 1>>, <<1, 0>>, <<1, 2>>, <<2, 1>>,
     <<0, 0>>, <<0, 2>>, <<2, 0>>, <<2, 2>> >>

WindowSpan(position, offset, ij) ==
  get_region_spans(offset, << position[1] + ij[1] - 1, position[2] + ij[2] - 1 >>, 1)

WindowSkipped(span) == (span.re - span.rs <= 2) \/ (span.ce - span.cs <= 2)

\* the 3x3 patch read from locked_tiles, 0 where the grid has no cell
WindowPattern(g, span) ==
  LET Cell(p) == IF p[1] < g.dimensions[1] /\ p[2] < g.dimensions[2]
                 THEN g.locked_tiles[p] - 1
                 ELSE 0
  IN [di \in TileIdx |-> [dj \in TileIdx |->
        Cell(<< span.rs + di - 1, span.cs + dj - 1 >>)]]

RECURSIVE ViableFold(_, _, _, _, _, _)
ViableFold(g, position, offset, k, has_result, result_bitset) ==
  IF k > Len(WindowOrder)
  THEN IF has_result THEN result_bitset ELSE {}
  ELSE LET Intersect(intersection) ==
             IF intersection = {} THEN {}
             ELSE ViableFold(g, position, offset, k + 1, TRUE, intersection)
           Merge(compatible_bitset) ==
             IF ~has_result
             THEN ViableFold(g, position, offset, k + 1, TRUE, compatible_bitset)
             ELSE Intersect(result_bitset \cap compatible_bitset)
           Window(ij, span) ==
             IF WindowSkipped(span)
             THEN ViableFold(g, position, offset, k + 1, has_result, result_bitset)
             ELSE Merge(find_compatible_values_at_offset_bitset(
                          WindowPattern(g, span), 2 - ij[1], 2 - ij[2]))
           At(ij) == Window(ij, WindowSpan(position, offset, ij))
       IN At(WindowOrder[k])

\* the set of viable colours at a world position (to_vec lists it ascending)
compute_viable_tiles_at_position(g, position, offset) ==
  ViableFold(g, position, offset, 1, FALSE, {})

\* ----------------------------------------------- viable-tile cache (cache.rs)
\* variant of PatternKey::new that leaves the target out of the key
PatternKey_no_target(tile_pattern, target_row, target_col) ==
  << [k \in 1..9 |-> tile_pattern[((k - 1) \div 3) + 1][((k - 1) % 3) + 1]], 0, 0 >>

\* PatternKey::new: the pattern flattened row by row, and the target
PatternKey(tile_pattern, target_row, target_col) ==
  << [k \in 1..9 |-> tile_pattern[((k - 1) \div 3) + 1][((k - 1) % 3) + 1]],
     target_row, target_col >>

\* the 3x3 pattern a key was made from
KeyPattern(pattern_key) ==
  [i \in TileIdx |-> [j \in TileIdx |-> pattern_key[1][(i - 1) * 3 + j]]]

\* ViableTilesCache::get_or_compute_pattern: the bitset it returns, the cache
\* it leaves and whether it ran compute_fn (whose result is computed)
get_or_compute_pattern(cache, pattern_key, computed) ==
  IF pattern_key \in DOMAIN cache
  THEN [bitset |-> cache[pattern_key], cache |-> cache, miss |-> FALSE]
  ELSE [bitset |-> computed,
        cache |-> [key \in DOMAIN cache \cup {pattern_key} |->
                     IF key = pattern_key THEN computed ELSE cache[key]],
        miss |-> TRUE]

\* compute_viable_tiles_at_position reading through a cache: the viable set,
\* the cache it leaves and the keys compute_fn ran for, in order
RECURSIVE ViableFoldCached(_, _, _, _, _, _, _, _)
ViableFoldCached(g, position, offset, k, has_result, result_bitset, cache, misses) ==
  IF k > Len(WindowOrder)
  THEN [viable |-> IF has_result THEN result_bitset ELSE {},
        cache |-> cache, misses |-> misses]
  ELSE LET Intersect(intersection, cache1, misses1) ==
             IF intersection = {}
             THEN [viable |-> {}, cache |-> cache1, misses |-> misses1]
             ELSE ViableFoldCached(g, position, offset, k + 1, TRUE, intersection,
                                   cache1, misses1)
           Merge(got, misses1) ==
             IF ~has_result
             THEN ViableFoldCached(g, position, offset, k + 1, TRUE, got.bitset,
                                   got.cache, misses1)
             ELSE Intersect(result_bitset \cap got.bitset, got.cache, misses1)
           Looked(pattern_key, got) ==
             Merge(got, IF got.miss THEN Append(misses, pattern_key) ELSE misses)
           Lookup(tile_3x3, target_row, target_col, pattern_key) ==
             Looked(pattern_key,
                    get_or_compute_pattern(cache, pattern_key,
                      find_compatible_values_at_offset_bitset(tile_3x3, target_row,
                                                              target_col)))
           Pattern(tile_3x3, target_row, target_col) ==
             Lookup(tile_3x3, target_row, target_col,
                    PatternKey(tile_3x3, target_row, target_col))
           Window(ij, span) ==
             IF WindowSkipped(span)
             THEN ViableFoldCached(g, position, offset, k + 1, has_result, result_bitset,
                                   cache, misses)
             ELSE Pattern(WindowPattern(g, span), 2 - ij[1], 2 - ij[2])
           At(ij) == Window(ij, WindowSpan(position, offset, ij))
       IN At(WindowOrder[k])

compute_viable_tiles_cached(g, position, offset, cache) ==
  ViableFoldCached(g, position, offset, 1, FALSE, {}, cache, << >>)

\* ------------------------------------------------ propagation (propagation.rs)
\* variant of the adjacency loop that resets the weights outside its window
RECURSIVE AddAdjacency_reset(_, _, _, _, _)
AddAdjacency_reset(g, adj, coords, offset, level) ==
  IF level > ADJACENCY_LEVELS THEN adj
  ELSE LET weight_increment == 1 + ADJACENCY_LEVELS - level
           cells == SpanCells(g, get_region_spans(offset, coords, level))
       IN AddAdjacency_reset(g,
            [p \in DOMAIN adj |-> IF p \in cells THEN adj[p] + weight_increment ELSE 1],
            coords, offset, level + 1)

RECURSIVE AddAdjacency(_, _, _, _, _)
AddAdjacency(g, adj, coords, offset, level) ==
  IF level > ADJACENCY_LEVELS THEN adj
  ELSE LET weight_increment == 1 + ADJACENCY_LEVELS - level
           cells == SpanCells(g, get_region_spans(offset, coords, level))
       IN AddAdjacency(g,
            [p \in DOMAIN adj |-> IF p \in cells THEN adj[p] + weight_increment ELSE adj[p]],
            coords, offset, level + 1)

update_grid_state(g, selected_cell_reference, selection_coordinates, offset) ==
  LET cells0 == SpanCells(g, get_region_spans(offset, selection_coordinates, 0))
  IN [g EXCEPT
        !.adjacency_weights =
            AddAdjacency(g, g.adjacency_weights, selection_coordinates, offset, 1),
        !.locked_tiles =
            [p \in DOMAIN g.locked_tiles |->
               IF p \in cells0 THEN g.locked_tiles[p] + selected_cell_reference
               ELSE g.locked_tiles[p]]]

\* the span with both ends clipped to the grid (start.min(rows)..end.min(rows))
ClippedRegion(g, span) ==
  [ rs |-> Min(span.rs, g.dimensions[1]), re |-> Min(span.re, g.dimensions[1]),
    cs |-> Min(span.cs, g.dimensions[2]), ce |-> Min(span.ce, g.dimensions[2]) ]

\* probability_influence_matrices[tile - 1][color][i][j] for the cell p of a
\* region: i and j count from the clipped start of the region
InfluenceFactor(tile, color, region, p) ==
  << "impact", tile, color, p[1] - region.rs, p[2] - region.cs >>

\* calculate_integer_pair_distances: a pair of colours has a distance group
\* when two pixels at distinct places of the image carry them
PairHasDistances(img, from, to) ==
  \E i1 \in 1..Len(img), i2 \in 1..Len(img),
     j1 \in 1..Len(img[1]), j2 \in 1..Len(img[1]) :
       /\ << i1, j1 >> # << i2, j2 >>
       /\ img[i1][j1] = from
       /\ img[i2][j2] = to

ValuesOf(img) == {img[i][j] : i \in 1..Len(img), j \in 1..Len(img[1])}

\* create_density_interpolations: one group per source value that has a
\* distribution, in the order of the values; inside a group one interpolation
\* per distribution, in the order of the target values
GroupOf(img, from) == {to \in ValuesOf(img) : PairHasDistances(img, from, to)}

GroupedValues(img) == {from \in ValuesOf(img) : GroupOf(img, from) # {}}

\* compute_probability_influence_matrices: the entry [from_index][to_index] is
\* written (dist_val * exp(..), positive) for the to_index-th interpolation of
\* the from_index-th group, and every other entry keeps the 0.0 of
\* Array4::zeros. TRUE stands for a written entry.
compute_probability_influence_matrices(img) ==
  [tile \in Colors |->
     [color \in Colors |->
        \E from \in GroupedValues(img) :
           /\ Cardinality({v \in GroupedValues(img) : v <= from}) = tile
           /\ color <= Cardinality(GroupOf(img, from))]]

\* Processor::preprocess_pattern_statistics on the exemplar of the runs
preprocess_pattern_statistics == compute_probability_influence_matrices(Exemplar)

\* update_probabilities_and_entropy with update_probabilities_and_entropy_fused
update_probabilities_and_entropy(g, matrices, selected_cell_reference, selection_coordinates, offset) ==
  LET Entropy(cells, multiplied) ==
        [g EXCEPT
           !.tile_probabilities = multiplied,
           !.entropy =
               [p \in DOMAIN g.entropy |->
                  IF p \in cells THEN MeanNormalizedEntropy(multiplied, p)
                  ELSE g.entropy[p]]]
      Fused(region, cells) ==
        Entropy(cells,
               [color \in DOMAIN g.tile_probabilities |->
                  [p \in DOMAIN g.tile_probabilities[color] |->
                     IF p \in cells
                     THEN (IF matrices[selected_cell_reference][color]
                           THEN Times(g.tile_probabilities[color][p],
                                      InfluenceFactor(selected_cell_reference, color,
                                                      region, p))
                           ELSE Zero)
                     ELSE g.tile_probabilities[color][p]]])
      Region(region) == Fused(region, SpanCells(g, region))
  IN Region(ClippedRegion(g, get_region_spans(offset, selection_coordinates,
                                              grid_extension_radius)))

\* ------------------------------------- feasibility counts (feasibility.rs)
\* FeasibilityCountLayer::new
FeasibilityCountLayer_new(rows, cols, tile_count) ==
  [ dimensions |-> << rows, cols >>,
    counts |-> [p \in Cells(rows, cols) |-> tile_count],
    tile_count |-> tile_count ]

\* FeasibilityCountLayer::update_count
update_count(layer, row, col, tile_grid) ==
  LET Count(potential_sources) ==
        Cardinality({r \in potential_sources : PatternMatches(tile_grid, source_tiles[r])})
  IN IF << row, col >> \in DOMAIN layer.counts
     THEN [layer EXCEPT !.counts[<< row, col >>] =
             Count(tile_compatibility_rules(convert_tile_to_membership_booleans(tile_grid)))]
     ELSE layer

\* FeasibilityCountLayer::get_fraction, as the number of tiles out of tile_count
get_fraction(layer, row, col) ==
  IF row < layer.dimensions[1] /\ col < layer.dimensions[2]
  THEN layer.counts[<< row, col >>]
  ELSE layer.tile_count

\* FeasibilityCountLayer::extend_to: the old counts stay at their indices
extend_to(layer, new_rows, new_cols) ==
  IF new_rows = layer.dimensions[1] /\ new_cols = layer.dimensions[2]
  THEN layer
  ELSE [layer EXCEPT
          !.dimensions = << new_rows, new_cols >>,
          !.counts = [p \in Cells(new_rows, new_cols) |->
                        IF p \in DOMAIN layer.counts THEN layer.counts[p]
                        ELSE layer.tile_count]]

\* the update_count calls for the windows whose top-left cells are given, the
\* windows that reach past the grid left out
RECURSIVE UpdateCounts(_, _, _)
UpdateCounts(g, layer, sources) ==
  IF sources = << >> THEN layer
  ELSE LET source == Head(sources)
           Window(tile_grid) ==
             UpdateCounts(g, update_count(layer, source[1], source[2], tile_grid),
                          Tail(sources))
       IN IF source[1] + 2 < g.dimensions[1] /\ source[2] + 2 < g.dimensions[2]
          THEN Window(WindowPattern(g, [rs |-> source[1], re |-> source[1] + 3,
                                        cs |-> source[2], ce |-> source[2] + 3]))
          ELSE UpdateCounts(g, layer, Tail(sources))

\* the aggregate stored at a cell: over the windows of the grid that hold the
\* cell (top-left corners p-2..p), the mean of fraction^power
NineSources(p) ==
  [k \in 1..9 |-> << p[1] - ((k - 1) \div 3), p[2] - ((k - 1) % 3) >>]

Power(x, power) == IF power = 2 THEN x * x ELSE x

Aggregate(g, layer, p, power) ==
  LET Sum(fractions, count) ==
        Mean(SumTo(fractions, 9), count * Power(layer.tile_count, power))
      Over9(sources) ==
        Sum([k \in 1..9 |->
               IF InGrid(g, sources[k])
               THEN Power(get_fraction(layer, sources[k][1], sources[k][2]), power)
               ELSE 0],
            Cardinality({k \in 1..9 : InGrid(g, sources[k])}))
  IN Over9(NineSources(p))

\* update_feasibility_counts: the counts of the windows around the placement,
\* then the feasibility of the cells one past the targets
update_feasibility_counts(g, layer, selection_coordinates, offset) ==
  LET Average(counted, cells) ==
        [ grid |->
            [g EXCEPT
               !.feasibility =
                   [p \in DOMAIN g.feasibility |->
                      IF p \in cells THEN Aggregate(g, counted, p, 1)
                      ELSE g.feasibility[p]]],
          layer |-> counted ]
      Targets(span) ==
        Average(UpdateCounts(g, layer,
                                 RowMajor(SpanCells(g, span))),
                {p \in Cells(g.dimensions[1], g.dimensions[2]) :
                   /\ p[1] - 1 >= Min(span.rs + 1, g.dimensions[1])
                   /\ p[1] - 1 < Min(span.re, g.dimensions[1])
                   /\ p[2] - 1 >= Min(span.cs + 1, g.dimensions[2])
                   /\ p[2] - 1 < Min(span.ce, g.dimensions[2])})
  IN Targets(get_region_spans(offset, selection_coordinates, ADJACENCY_LEVELS))

NeighborOffsets ==
  << <<-1, -1>>, <<-1, 0>>, <<-1, 1>>, <<0, -1>>, <<0, 1>>, <<1, -1>>, <<1, 0>>, <<1, 1>> >>

\* variant of the scan of detect_forced_positions that does not skip locked cells
RECURSIVE DetectFold_locked_kept(_, _, _, _)
DetectFold_locked_kept(g, position, offset, k) ==
  IF k > Len(NeighborOffsets) THEN << >>
  ELSE LET Forced(check_pos, viable, rest) ==
             IF Cardinality(viable) = 1
             THEN << [coordinates |-> check_pos,
                      tile_reference |-> CHOOSE t \in viable : TRUE] >> \o rest
             ELSE rest
           Check(check_pos, cell, rest) ==
             IF g.generation_bounds.some /\ ~contains(g.generation_bounds, check_pos)
             THEN rest
             ELSE IF ~InGrid(g, cell) THEN rest
             ELSE Forced(check_pos,
                         compute_viable_tiles_at_position(g, check_pos, offset), rest)
           At(check_pos) ==
             Check(check_pos, ToGrid(offset, check_pos),
                   DetectFold_locked_kept(g, position, offset, k + 1))
       IN At(<< position[1] + NeighborOffsets[k][1],
                position[2] + NeighborOffsets[k][2] >>)

RECURSIVE DetectFold(_, _, _, _)
DetectFold(g, position, offset, k) ==
  IF k > Len(NeighborOffsets) THEN << >>
  ELSE LET Forced(check_pos, viable, rest) ==
             IF Cardinality(viable) = 1
             THEN << [coordinates |-> check_pos,
                      tile_reference |-> CHOOSE t \in viable : TRUE] >> \o rest
             ELSE rest
           Check(check_pos, cell, rest) ==
             IF g.generation_bounds.some /\ ~contains(g.generation_bounds, check_pos)
             THEN rest
             ELSE IF ~InGrid(g, cell) THEN rest
             ELSE IF g.locked_tiles[cell] > 1 THEN rest
             ELSE Forced(check_pos,
                         compute_viable_tiles_at_position(g, check_pos, offset), rest)
           At(check_pos) ==
             Check(check_pos, ToGrid(offset, check_pos),
                   DetectFold(g, position, offset, k + 1))
       IN At(<< position[1] + NeighborOffsets[k][1],
                position[2] + NeighborOffsets[k][2] >>)

\* variant of detect_forced_positions that queues the tile just placed for the
\* forced neighbours instead of their one viable tile
detect_forced_positions_copied(g, position, offset) ==
  LET Copy(found, tile) ==
        [k \in 1..Len(found) |-> [found[k] EXCEPT !.tile_reference = tile]]
  IN Copy(DetectFold(g, position, offset, 1),
          g.locked_tiles[ToGrid(offset, position)] - 1)

detect_forced_positions(g, position, offset) == DetectFold(g, position, offset, 1)

\* variant of add_positions that pushes every position
add_positions_all(queue, positions) == queue \o positions

\* ForcedPipeline::take_next: what it returns and the queue it leaves
take_next(queue) ==
  IF queue = << >>
  THEN [some |-> FALSE, queue |-> queue]
  ELSE [some |-> TRUE, position |-> Head(queue), queue |-> Tail(queue)]

\* ForcedPipeline::add_positions
RECURSIVE add_positions(_, _)
add_positions(queue, positions) ==
  IF positions = << >> THEN queue
  ELSE add_positions(
         IF \E k \in 1..Len(queue) : queue[k].coordinates = Head(positions).coordinates
         THEN queue
         ELSE Append(queue, Head(positions)),
         Tail(positions))

\* variant of the scan of check_for_contradiction that goes column by column
RECURSIVE ContradictionScan_columns(_, _, _, _)
ContradictionScan_columns(g, offset, i, j) ==
  IF j >= g.dimensions[2] THEN [some |-> FALSE, pos |-> <<0, 0>>]
  ELSE IF i >= g.dimensions[1] THEN ContradictionScan_columns(g, offset, 0, j + 1)
  ELSE IF g.locked_tiles[<<i, j>>] > 1 THEN ContradictionScan_columns(g, offset, i + 1, j)
  ELSE IF /\ g.adjacency_weights[<<i, j>>] > 1
          /\ compute_viable_tiles_at_position(g, ToWorld(offset, <<i, j>>), offset) = {}
       THEN [some |-> TRUE, pos |-> <<i, j>>]
       ELSE ContradictionScan_columns(g, offset, i + 1, j)

\* the loops of check_for_contradiction from cell (i, j) on: rows outside,
\* columns inside, returning at the first cell that qualifies
RECURSIVE ContradictionScan(_, _, _, _)
ContradictionScan(g, offset, i, j) ==
  IF i >= g.dimensions[1] THEN [some |-> FALSE, pos |-> <<0, 0>>]
  ELSE IF j >= g.dimensions[2] THEN ContradictionScan(g, offset, i + 1, 0)
  ELSE IF g.locked_tiles[<<i, j>>] > 1 THEN ContradictionScan(g, offset, i, j + 1)
  ELSE IF /\ g.adjacency_weights[<<i, j>>] > 1
          /\ compute_viable_tiles_at_position(g, ToWorld(offset, <<i, j>>), offset) = {}
       THEN [some |-> TRUE, pos |-> <<i, j>>]
       ELSE ContradictionScan(g, offset, i, j + 1)

check_for_contradiction(g, offset) == ContradictionScan(g, offset, 0, 0)

\* ---------------------------------------------------- deadlock (deadlock.rs)
RECURSIVE SubAdjacency(_, _, _, _, _)
SubAdjacency(g, adj, coords, offset, level) ==
  IF level > ADJACENCY_LEVELS THEN adj
  ELSE LET weight_decrement == 1 + ADJACENCY_LEVELS - level
           cells == SpanCells(g, get_region_spans(offset, coords, level))
       IN SubAdjacency(g,
            [p \in DOMAIN adj |->
               IF p \in cells THEN SatSub(adj[p], weight_decrement) ELSE adj[p]],
            coords, offset, level + 1)

\* the division of the influence of an unlocked tile out of tile_probabilities
DivideInfluence(g, matrices, tile_reference, coords, offset) ==
  LET Divide(region, cells) ==
        [color \in DOMAIN g.tile_probabilities |->
           [p \in DOMAIN g.tile_probabilities[color] |->
              IF p \in cells /\ matrices[tile_reference][color]
              THEN Over(g.tile_probabilities[color][p],
                        InfluenceFactor(tile_reference, color, region, p))
              ELSE g.tile_probabilities[color][p]]]
      Region(region) == Divide(region, SpanCells(g, region))
  IN IF tile_reference = 0 \/ tile_reference > unique_cell_count
     THEN g.tile_probabilities
     ELSE Region(ClippedRegion(g, get_region_spans(offset, coords, grid_extension_radius)))

\* reverse the placement of every tile of tiles_to_unlock, in order
RECURSIVE UnlockFold(_, _, _, _, _)
UnlockFold(g, matrices, tally, offset, tiles_to_unlock) ==
  IF tiles_to_unlock = << >> THEN [grid |-> g, tally |-> tally]
  ELSE LET Revert(cell, tile_reference) ==
             UnlockFold(
               [g EXCEPT
                  !.locked_tiles[cell] = SatSub(g.locked_tiles[cell], tile_reference),
                  !.adjacency_weights =
                      SubAdjacency(g, g.adjacency_weights, ToWorld(offset, cell), offset, 1),
                  !.tile_probabilities =
                      DivideInfluence(g, matrices, tile_reference,
                                      ToWorld(offset, cell), offset)],
               matrices,
               IF tile_reference >= 1 /\ tile_reference \in DOMAIN tally
               THEN [tally EXCEPT ![tile_reference] = SatSub(tally[tile_reference], 1)]
               ELSE tally,
               offset, Tail(tiles_to_unlock))
       IN Revert(Head(tiles_to_unlock).cell, Head(tiles_to_unlock).tile_reference)

\* the entropy and feasibility a resolution recomputes, and the counts of the
\* windows of the feasibility span
RecomputeAround(g, layer, contradiction_coords, offset, removal_radius) ==
  LET Store(g1, counted, feasibility_cells) ==
        [ grid |->
            [g1 EXCEPT
               !.feasibility =
                   [p \in DOMAIN g1.feasibility |->
                      IF p \in feasibility_cells THEN Aggregate(g1, counted, p, 2)
                      ELSE g1.feasibility[p]]],
          layer |-> counted ]
      Feasibility(g1, feasibility_cells) ==
        Store(g1, UpdateCounts(g1, layer, RowMajor(feasibility_cells)), feasibility_cells)
      Entropy(entropy_cells) ==
        [g EXCEPT
           !.entropy =
               [p \in DOMAIN g.entropy |->
                  IF p \in entropy_cells /\ g.locked_tiles[p] <= 1
                  THEN MeanNormalizedEntropy(g.tile_probabilities, p)
                  ELSE g.entropy[p]]]
  IN Feasibility(
       Entropy(SpanCells(g, get_region_spans(offset, contradiction_coords,
                                             grid_extension_radius + removal_radius))),
       SpanCells(g, get_region_spans(offset, contradiction_coords,
                                     (ADJACENCY_LEVELS + 1) + removal_radius)))

\* variant of the collection that takes the placed cells of the whole grid
TilesToUnlock_everywhere(g, offset, contradiction_coords, removal_radius) ==
  RowMajor({p \in Cells(g.dimensions[1], g.dimensions[2]) : g.locked_tiles[p] > 1})

\* the cells resolve_spatial_deadlock collects: the placed cells of the span
\* of removal_radius around the contradiction, row by row
TilesToUnlock(g, offset, contradiction_coords, removal_radius) ==
  RowMajor({p \in SpanCells(g, get_region_spans(offset, contradiction_coords,
                                                removal_radius)) :
              g.locked_tiles[p] > 1})

resolve_spatial_deadlock(g, layer, matrices, contradiction_pos, offset, tally) ==
  LET Recomputed(res, rec, unlocked_positions, removal_radius) ==
        [ grid |-> rec.grid,
          layer |-> rec.layer,
          tally |-> res.tally,
          unlocked_positions |-> unlocked_positions,
          removal_radius |-> removal_radius ]
      Result(unlocked_positions, removal_radius, res) ==
        Recomputed(res,
                   RecomputeAround(res.grid, layer, ToWorld(offset, contradiction_pos),
                                   offset, removal_radius),
                   unlocked_positions, removal_radius)
      Unlock(g0, unlocked_positions, removal_radius) ==
        Result(unlocked_positions, removal_radius,
               UnlockFold(g0, matrices, tally, offset,
                 [k \in 1..Len(unlocked_positions) |->
                    [cell |-> unlocked_positions[k],
                     tile_reference |-> g0.locked_tiles[unlocked_positions[k]] - 1]]))
      Collect(g0, removal_radius) ==
        Unlock(g0,
               TilesToUnlock(g0, offset, ToWorld(offset, contradiction_pos), removal_radius),
               removal_radius)
      Radius(g0, removal_count) ==
        Collect(g0, Min(BASE_REMOVAL_RADIUS + removal_count, MAX_REMOVAL_RADIUS))
      Count(g0) ==
        Radius(g0, IF InGrid(g0, contradiction_pos)
                   THEN g0.removal_count[contradiction_pos] ELSE 0)
  IN Count(IF InGrid(g, contradiction_pos)
           THEN [g EXCEPT !.removal_count[contradiction_pos] =
                             Min(g.removal_count[contradiction_pos] + 1, U8_MAX)]
           ELSE g)

\* ------------------------------------------------------ prefill (prefill.rs)
NoPrefill ==
  [ some |-> FALSE, placement_queue |-> << >>, protected_positions |-> {},
    bounds |-> [min |-> <<0, 0>>, max |-> <<0, 0>>] ]

\* PrefillData::from_png on an image given as rows of tile ids (0 = a colour
\* that is not in the palette); the pixels are visited row by row
PrefillPixels(img) ==
  LET height == Len(img)
      width  == Len(img[1])
  IN [k \in 1..(height * width) |->
        LET y == (k - 1) \div width
            x == (k - 1) % width
        IN [world_position |-> << y - (height \div 2), x - (width \div 2) >>,
            tile_reference |-> img[y + 1][x + 1]]]

from_png(img) ==
  LET IsPlaced(px) == px.tile_reference > 0
      Least(S) == CHOOSE m \in S : \A q \in S : m <= q
      Greatest(S) == CHOOSE m \in S : \A q \in S : m >= q
      Bounds(rows, cols) ==
        [min |-> << Least(rows), Least(cols) >>, max |-> << Greatest(rows), Greatest(cols) >>]
      Data(placement_queue, positions) ==
        [ some |-> TRUE,
          placement_queue |-> placement_queue,
          protected_positions |->
             {<< placement_queue[k].world_position, placement_queue[k].tile_reference >> :
                 k \in 1..Len(placement_queue)},
          bounds |-> Bounds({q[1] : q \in positions}, {q[2] : q \in positions}) ]
      Queue(placement_queue) ==
        Data(placement_queue,
             {placement_queue[k].world_position : k \in 1..Len(placement_queue)})
  IN Queue(SelectSeq(PrefillPixels(img), IsPlaced))

\* PrefillData::is_protected: the protected tile of a position, 0 for none
is_protected(prefill, world_pos) ==
  LET Tile(S) == IF S = {} THEN 0 ELSE CHOOSE t \in S : TRUE
  IN Tile({t \in Colors : << world_pos, t >> \in prefill.protected_positions})

\* PrefillData::queue_replacement
queue_replacement(queue, placement) == << placement >> \o queue

\* ---------------------------------------------------- executor (executor.rs)
DEFAULT_SEED == 42

\* StdRng::seed_from_u64: a generator is the seed and the number of elements
\* of the seed's stream it has produced; rng.random() hands out the next one
seed_from_u64(seed) == [seed |-> seed, drawn |-> 0]

random(rng) == [rng EXCEPT !.drawn = @ + 1]

\* the element of its seed's stream a generator hands out next
NextElement(rng) == [seed |-> rng.seed, index |-> rng.drawn]

\* the generator from_image_processor builds for select_initial_tile, which
\* draws from it once
InitialTileRng(seed) == seed_from_u64(seed)

\* RandomSelector::new
RandomSelector_new(seed) == seed_from_u64(seed)

\* RandomSelector::weighted_choice, the generator after the call: no element
\* is drawn when the weights sum to 0
weighted_choice(selector, total_positive) ==
  IF total_positive THEN random(selector) ELSE selector

\* RandomSelector::log_weighted_choice, the generator after the call: no
\* element is drawn for an empty list
log_weighted_choice(selector, log_weights_count) ==
  IF log_weights_count = 0 THEN selector ELSE random(selector)

VARIABLES
  config,                   \* AlgorithmConfig.bounds of the run (never changes)
  probability_influence_matrices,  \* which entries were written (never changes)
  grid_state,               \* GridState: the six fields, dimensions, bounds
  system_offset,            \* world + offset = grid index
  selected_cell_reference,  \* last selected tile (the seed colour at first)
  selection_coordinates,    \* world coordinates of the last selection
  selection_tally,          \* count of placed tiles per colour
  forced_pipeline,          \* queue of forced positions
  prefill_data,             \* Option<PrefillData>
  initial_placement_done,
  iteration,
  feasibility_layer,        \* FeasibilityCountLayer: counts, their shape, tile_count
  random_selector,          \* RandomSelector.rng: its seed, the elements drawn so far
  pc,                       \* "idle", or "select" inside select_random_position
                            \* ("retry" at its call of itself, where told apart)
  result,                   \* what the last run_iteration call returned
  last,                     \* history: what the last step decided and undid
  deadlock_history,         \* history: resolutions so far per world coordinate
  owed,                     \* history: protected cells unlocked and not restored
  viable_tiles_cache,       \* ViableTilesCache.pattern_cache: PatternKey -> bitset
  probe                     \* history: the last operation applied on its own, its
                            \* arguments and what it returned

vars == << config, probability_influence_matrices, grid_state, system_offset, selected_cell_reference, selection_coordinates,
           selection_tally, forced_pipeline, prefill_data, initial_placement_done,
           iteration, feasibility_layer, random_selector, pc, result, last,
           deadlock_history, owed, viable_tiles_cache,
           probe >>

NoProbe == [op |-> "none"]

NoDeadlock ==
  [ happened |-> FALSE, center |-> <<0, 0>>, radius |-> 0, count |-> 0,
    unlocked |-> {}, requeued |-> {} ]

NoStep ==
  [ source |-> "none", position |-> <<0, 0>>, tile |-> 0, in_grid |-> FALSE,
    dl |-> NoDeadlock ]

Self ==
  [ grid_state |-> grid_state,
    system_offset |-> system_offset,
    selected_cell_reference |-> selected_cell_reference,
    selection_coordinates |-> selection_coordinates,
    selection_tally |-> selection_tally,
    forced_pipeline |-> forced_pipeline,
    prefill_data |-> prefill_data,
    initial_placement_done |-> initial_placement_done,
    iteration |-> iteration,
    probability_influence_matrices |-> probability_influence_matrices,
    feasibility_layer |-> feasibility_layer,
    random_selector |-> random_selector,
    dl |-> NoDeadlock ]

\* the generation bounds from_image_processor derives from config.bounds
ConfigBounds(width, height) ==
  LET half_width  == width \div 2
      half_height == height \div 2
  IN [ some |-> TRUE,
       min |-> << -half_width, -half_height >>,
       max |-> << half_width - 1, half_height - 1 >> ]

\* GreedyStochastic::from_image_processor
from_image_processor(config_bounds, seed_tile) ==
  LET Built(ext) ==
        [ grid_state |-> ext.grid,
          system_offset |-> ext.offset,
          selected_cell_reference |-> seed_tile,
          selection_coordinates |-> <<0, 0>>,
          selection_tally |-> [t \in Colors |-> 0],
          forced_pipeline |-> << >>,
          prefill_data |-> NoPrefill,
          initial_placement_done |-> FALSE,
          iteration |-> 0,
          probability_influence_matrices |-> preprocess_pattern_statistics,
          feasibility_layer |->
             FeasibilityCountLayer_new(ext.grid.dimensions[1], ext.grid.dimensions[2],
                                       Len(source_tiles)),
          random_selector |-> RandomSelector_new(DEFAULT_SEED),
          dl |-> NoDeadlock ]
  IN Built(extend_if_needed(
             [GridState_new(1, 1) EXCEPT
                !.generation_bounds =
                   IF config_bounds.some
                   THEN ConfigBounds(config_bounds.width, config_bounds.height)
                   ELSE NoBounds],
             <<0, 0>>, <<0, 0>>, grid_extension_radius))

\* the four corners apply_prefill extends the grid to, in order
RECURSIVE ExtendToCorners(_, _, _)
ExtendToCorners(g, offset, corners) ==
  IF corners = << >> THEN [grid |-> g, offset |-> offset]
  ELSE LET Rest(ext) == ExtendToCorners(ext.grid, ext.offset, Tail(corners))
       IN Rest(extend_if_needed(g, offset, Head(corners), grid_extension_radius))

\* GreedyStochastic::apply_prefill
apply_prefill(e, prefill) ==
  LET min_coords == prefill.bounds.min
      max_coords == prefill.bounds.max
      Expanded(gb) ==
        IF gb.some /\ (~contains(gb, min_coords) \/ ~contains(gb, max_coords))
        THEN [ some |-> TRUE,
               min |-> << Min(gb.min[1], min_coords[1]), Min(gb.min[2], min_coords[2]) >>,
               max |-> << Max(gb.max[1], max_coords[1]), Max(gb.max[2], max_coords[2]) >> ]
        ELSE gb
      Applied(ext) ==
        [e EXCEPT !.grid_state = [ext.grid EXCEPT !.generation_bounds = Expanded(@)],
                  !.system_offset = ext.offset,
                  !.prefill_data = prefill]
  IN Applied(ExtendToCorners(e.grid_state, e.system_offset,
               << min_coords, max_coords,
                  << min_coords[1], max_coords[2] >>,
                  << max_coords[1], min_coords[2] >> >>))

TallySum(tally) == SumTo(tally, unique_cell_count)

\* variant of check_completion that waits for more tiles than the area
check_completion_strict(e) ==
  LET bounds == e.grid_state.generation_bounds
  IN /\ bounds.some
     /\ LET width  == bounds.max[1] - bounds.min[1] + 1
            height == bounds.max[2] - bounds.min[2] + 1
        IN TallySum(e.selection_tally) > width * height

\* GreedyStochastic::check_completion
check_completion(e) ==
  LET bounds == e.grid_state.generation_bounds
  IN /\ bounds.some
     /\ LET width  == bounds.max[1] - bounds.min[1] + 1
            height == bounds.max[2] - bounds.min[2] + 1
        IN TallySum(e.selection_tally) >= width * height

\* the replacements resolve_deadlock queues, in the order of unlocked_positions
RECURSIVE RequeueFold(_, _, _, _)
RequeueFold(prefill, queue, offset, unlocked_positions) ==
  IF unlocked_positions = << >> THEN queue
  ELSE LET Requeue(world_pos, tile_ref) ==
             RequeueFold(prefill,
               IF tile_ref # 0
               THEN queue_replacement(queue,
                      [world_position |-> world_pos, tile_reference |-> tile_ref])
               ELSE queue,
               offset, Tail(unlocked_positions))
           At(world_pos) == Requeue(world_pos, is_protected(prefill, world_pos))
       IN At(ToWorld(offset, Head(unlocked_positions)))

\* GreedyStochastic::resolve_deadlock
resolve_deadlock(e, contradiction_pos) ==
  LET Resolved(res, unlocked) ==
        [e EXCEPT
           !.grid_state = res.grid,
           !.feasibility_layer = res.layer,
           !.selection_tally = res.tally,
           !.prefill_data =
               IF e.prefill_data.some
               THEN [e.prefill_data EXCEPT !.placement_queue =
                       RequeueFold(e.prefill_data, @, e.system_offset,
                                   res.unlocked_positions)]
               ELSE e.prefill_data,
           !.dl = [ happened |-> TRUE,
                    center |-> ToWorld(e.system_offset, contradiction_pos),
                    radius |-> res.removal_radius,
                    count |-> res.grid.removal_count[contradiction_pos],
                    unlocked |-> unlocked,
                    requeued |-> IF e.prefill_data.some
                                 THEN {w \in unlocked : is_protected(e.prefill_data, w) # 0}
                                 ELSE {} ]]
      Unlocked(res) ==
        Resolved(res, {ToWorld(e.system_offset, p) : p \in Range(res.unlocked_positions)})
  IN Unlocked(resolve_spatial_deadlock(e.grid_state, e.feasibility_layer,
                                       e.probability_influence_matrices,
                                       contradiction_pos, e.system_offset,
                                       e.selection_tally))

\* variant of place_tile that forgets the tally
place_tile_no_tally(e, decision) ==
  LET Updated(ext, counted) ==
        [e EXCEPT
           !.selected_cell_reference = decision.tile_reference,
           !.selection_coordinates = decision.world_position,
           !.system_offset = ext.offset,
           !.grid_state = counted.grid,
           !.feasibility_layer = counted.layer]
      Extended(ext) ==
        Updated(ext,
                update_feasibility_counts(
                  update_grid_state(
                    update_probabilities_and_entropy(ext.grid,
                                                     e.probability_influence_matrices,
                                                     decision.tile_reference,
                                                     decision.world_position, ext.offset),
                    decision.tile_reference, decision.world_position, ext.offset),
                  IF ext.extended
                  THEN extend_to(e.feasibility_layer, ext.grid.dimensions[1],
                                 ext.grid.dimensions[2])
                  ELSE e.feasibility_layer,
                  decision.world_position, ext.offset))
  IN Extended(extend_if_needed(e.grid_state, e.system_offset, decision.world_position,
                               grid_extension_radius))

\* variant of the return of a placing call that reports completion at once
placing_call_returns_checked(e) ==
  IF check_completion(e) THEN "completed" ELSE "continued"

\* run_iteration and select_random_position after a placement: Ok(true)
placing_call_returns(e) == "continued"

\* GreedyStochastic::place_tile
place_tile(e, decision) ==
  LET Updated(ext, counted) ==
        [e EXCEPT
           !.selection_tally =
               IF decision.tile_reference \in DOMAIN e.selection_tally
               THEN [e.selection_tally EXCEPT ![decision.tile_reference] = @ + 1]
               ELSE e.selection_tally,
           !.selected_cell_reference = decision.tile_reference,
           !.selection_coordinates = decision.world_position,
           !.system_offset = ext.offset,
           !.grid_state = counted.grid,
           !.feasibility_layer = counted.layer]
      Extended(ext) ==
        Updated(ext,
                update_feasibility_counts(
                  update_grid_state(
                    update_probabilities_and_entropy(ext.grid,
                                                     e.probability_influence_matrices,
                                                     decision.tile_reference,
                                                     decision.world_position, ext.offset),
                    decision.tile_reference, decision.world_position, ext.offset),
                  IF ext.extended
                  THEN extend_to(e.feasibility_layer, ext.grid.dimensions[1],
                                 ext.grid.dimensions[2])
                  ELSE e.feasibility_layer,
                  decision.world_position, ext.offset))
  IN Extended(extend_if_needed(e.grid_state, e.system_offset, decision.world_position,
                               grid_extension_radius))

\* variant of post_placement_updates that keeps the pipeline after a deadlock
post_placement_updates_kept(e) ==
  LET Resolve(e1, c) == IF c.some THEN resolve_deadlock(e1, c.pos) ELSE e1
      Scan(e1) == Resolve(e1, check_for_contradiction(e1.grid_state, e1.system_offset))
  IN Scan([e EXCEPT !.forced_pipeline =
             add_positions(@, detect_forced_positions(e.grid_state, e.selection_coordinates,
                                                      e.system_offset))])

\* GreedyStochastic::post_placement_updates
post_placement_updates(e) ==
  LET Resolve(e1, c) ==
        IF c.some
        THEN [resolve_deadlock(e1, c.pos) EXCEPT !.forced_pipeline = << >>]
        ELSE e1
      Scan(e1) == Resolve(e1, check_for_contradiction(e1.grid_state, e1.system_offset))
  IN Scan([e EXCEPT !.forced_pipeline =
             add_positions(@, detect_forced_positions(e.grid_state, e.selection_coordinates,
                                                      e.system_offset))])

\* is the cell of a queued position still empty (out of the grid: as given)
StillEmpty(e, world_position, outside) ==
  LET Empty(cell) == IF InGrid(e.grid_state, cell)
                     THEN e.grid_state.locked_tiles[cell] <= 1
                     ELSE outside
  IN Empty(ToGrid(e.system_offset, world_position))

\* variant of the prefill loop that does not validate the entry
DrainPrefill_unchecked(e, queue) ==
  IF queue = << >> THEN [found |-> FALSE, queue |-> queue]
  ELSE [found |-> TRUE, queue |-> Tail(queue),
        world_position |-> Head(queue).world_position,
        tile_reference |-> Head(queue).tile_reference]

\* the prefill loop of get_placement_decision
RECURSIVE DrainPrefill(_, _)
DrainPrefill(e, queue) ==
  IF queue = << >> THEN [found |-> FALSE, queue |-> queue]
  ELSE IF StillEmpty(e, Head(queue).world_position, TRUE)
       THEN [found |-> TRUE, queue |-> Tail(queue),
             world_position |-> Head(queue).world_position,
             tile_reference |-> Head(queue).tile_reference]
       ELSE DrainPrefill(e, Tail(queue))

\* the forced-pipeline loop of get_placement_decision
RECURSIVE DrainForced(_, _)
DrainForced(e, queue) ==
  IF queue = << >> THEN [found |-> FALSE, queue |-> queue]
  ELSE IF StillEmpty(e, Head(queue).coordinates, FALSE)
       THEN [found |-> TRUE, queue |-> Tail(queue),
             world_position |-> Head(queue).coordinates,
             tile_reference |-> Head(queue).tile_reference]
       ELSE DrainForced(e, Tail(queue))

\* GreedyStochastic::get_placement_decision up to the stochastic selection:
\* the executor after the queues were drained, the source and the decision
get_placement_decision(e) ==
  IF ~e.initial_placement_done /\ ~e.prefill_data.some
  THEN [ e |-> [e EXCEPT !.initial_placement_done = TRUE],
         source |-> "seed",
         world_position |-> e.selection_coordinates,
         tile_reference |-> e.selected_cell_reference ]
  ELSE LET FromForced(e2, fc) ==
             IF fc.found
             THEN [ e |-> e2, source |-> "forced",
                    world_position |-> fc.world_position,
                    tile_reference |-> fc.tile_reference ]
             ELSE [ e |-> e2, source |-> "stochastic",
                    world_position |-> <<0, 0>>, tile_reference |-> 0 ]
           Forced(e1, fc) == FromForced([e1 EXCEPT !.forced_pipeline = fc.queue], fc)
           FromPrefill(e1, pf) ==
             IF pf.found
             THEN [ e |-> e1, source |-> "prefill",
                    world_position |-> pf.world_position,
                    tile_reference |-> pf.tile_reference ]
             ELSE Forced(e1, DrainForced(e1, e1.forced_pipeline))
           Prefill(pf) ==
             FromPrefill(IF e.prefill_data.some
                         THEN [e EXCEPT !.prefill_data.placement_queue = pf.queue]
                         ELSE e,
                         pf)
       IN Prefill(IF e.prefill_data.some
                  THEN DrainPrefill(e, e.prefill_data.placement_queue)
                  ELSE [found |-> FALSE, queue |-> << >>])

\* -------------------------------------- stochastic selection (weights.rs)
\* validity_matrix of calculate_position_selection: the unlocked cells
\* variant of validity_matrix that leaves locked cells valid
validity_matrix_all(e) ==
  Cells(e.grid_state.dimensions[1], e.grid_state.dimensions[2])

\* validity_matrix of calculate_position_selection: the cells left true
validity_matrix(e) ==
  LET Unlocked(g) ==
        {p \in Cells(g.dimensions[1], g.dimensions[2]) : g.locked_tiles[p] <= 1}
  IN Unlocked(e.grid_state)

\* variant of apply_boundary_mask that masks nothing
apply_boundary_mask_none(validity, bounds, offset) == validity

\* apply_boundary_mask: cells outside the bounds become invalid
apply_boundary_mask(validity, bounds, offset) ==
  {p \in validity : contains(bounds, ToWorld(offset, p))}

\* variant of the valid cells that keeps the locked cells inside the bounds
ValidCells_locked(e) ==
  LET Masked(validity) ==
        IF e.grid_state.generation_bounds.some
        THEN apply_boundary_mask(validity, e.grid_state.generation_bounds, e.system_offset)
        ELSE validity
  IN Masked(Cells(e.grid_state.dimensions[1], e.grid_state.dimensions[2]))

\* validity_matrix after the boundary mask: the cells a selection can draw
ValidCells(e) ==
  LET Masked(validity) ==
        IF e.grid_state.generation_bounds.some
        THEN apply_boundary_mask(validity, e.grid_state.generation_bounds, e.system_offset)
        ELSE validity
  IN Masked(validity_matrix(e))

\* adjacency_matrix of calculate_position_selection
AdjacencyScore(g, p) ==
  LET Square(adj_val) == adj_val * adj_val
  IN Square(SatSub(g.adjacency_weights[p], 1))

\* top_k_valid_indices on the adjacency matrix: the k highest valid cells.
\* Which of several cells tied at the k-th score survive depends on the heap
\* order: every tied cell is allowed.
top_k_valid_indices(e, k) ==
  LET TopK(g, valid) ==
        {p \in valid :
           Cardinality({q \in valid : AdjacencyScore(g, q) > AdjacencyScore(g, p)}) < k}
  IN TopK(e.grid_state, ValidCells(e))

\* the loop top_k_valid_indices and top_k_from_indices share: a min-heap of at
\* most k entries, a later entry replacing the minimum only when its value is
\* strictly greater. A heap is the sequence of the indices it holds; which of
\* several entries tied at the minimum is at the root depends on the layout of
\* the binary heap, so every one of them is a possible pop and the loop yields
\* the set of the heaps it can end with.
\* variant of the loop that keeps the first k entries and replaces none
TopKHeaps_first(matrix, items, k, heaps) ==
  {SubSeq(items, 1, Min(k, Len(items)))}

RECURSIVE TopKHeaps(_, _, _, _)
TopKHeaps(matrix, items, k, heaps) ==
  LET Without(heap, n) == SubSeq(heap, 1, n - 1) \o SubSeq(heap, n + 1, Len(heap))
      Minima(heap) ==
        {n \in DOMAIN heap : \A m \in DOMAIN heap : matrix[heap[n]] <= matrix[heap[m]]}
      Push(heap, index) ==
        IF Len(heap) < k THEN {Append(heap, index)}
        ELSE IF \E n \in Minima(heap) : matrix[index] > matrix[heap[n]]
             THEN {Append(Without(heap, n), index) : n \in Minima(heap)}
             ELSE {heap}
  IN IF items = << >> THEN heaps
     ELSE TopKHeaps(matrix, Tail(items), k,
                    UNION {Push(heap, Head(items)) : heap \in heaps})

\* top_k_valid_indices(matrix, validity, k): the valid cells in row-major
\* order through the loop; the lists it can return
top_k_valid_indices_of(matrix, validity, k) ==
  TopKHeaps(matrix, RowMajor(validity), k, {<< >>})

\* top_k_from_indices(matrix, indices, k): the lists it can return
top_k_from_indices(matrix, indices, k) ==
  TopKHeaps(matrix, indices, k, {<< >>})

\* The positions select_random_position can draw.  A cell's weight is its
\* adjacency score times positive factors, or 0; when every candidate scores 0
\* the weights sum to 0, weighted_choice returns index 0, and with all values
\* equal both heaps keep the first cell pushed at index 0: the first valid
\* cell in row-major order.
SelectionCandidates(e) ==
  LET Candidates(adjacency_candidates) ==
        IF adjacency_candidates = {} THEN {}
        ELSE IF \A p \in adjacency_candidates : AdjacencyScore(e.grid_state, p) = 0
             THEN {MinCell(ValidCells(e))}
             ELSE adjacency_candidates
  IN Candidates(top_k_valid_indices(e, ADJACENCY_CANDIDATES_CONSIDERED))

\* do the weights of the candidates sum to more than 0
TotalWeightPositive(e) ==
  \E p \in top_k_valid_indices(e, ADJACENCY_CANDIDATES_CONSIDERED) :
     AdjacencyScore(e.grid_state, p) > 0

\* ------------------------------------------------------------ state machine
ConfigChoices ==
  { [some |-> FALSE, width |-> 0, height |-> 0],
    [some |-> TRUE, width |-> 2, height |-> 2],
    [some |-> TRUE, width |-> 3, height |-> 3],
    [some |-> TRUE, width |-> 1, height |-> 4],
    [some |-> TRUE, width |-> 2, height |-> 4] }

PrefillImages ==
  { << <<2>> >>,
    << <<1, 0, 1>> >>,
    << <<1, 0, 0, 0, 2>> >>,
    << <<1, 1, 0, 0, 2>> >>,
    << <<2>>, <<0>>, <<0>> >> }

IterationBudget == IF config.some THEN MaxIterations ELSE MaxUnboundedIterations

Area(bounds) ==
  (bounds.max[1] - bounds.min[1] + 1) * (bounds.max[2] - bounds.min[2] + 1)

LockedCells(g) ==
  {p \in Cells(g.dimensions[1], g.dimensions[2]) : g.locked_tiles[p] >= 2}

\* the prefill queue holds an entry for this position and tile
Queued(prefill, world_pos, tile) ==
  \E k \in 1..Len(prefill.placement_queue) :
     /\ prefill.placement_queue[k].world_position = world_pos
     /\ prefill.placement_queue[k].tile_reference = tile

\* the protected positions whose cell holds the protected tile
Restored(e) ==
  LET Holds(cell, tile) ==
        InGrid(e.grid_state, cell) /\ e.grid_state.locked_tiles[cell] = tile + 1
  IN {pt \in e.prefill_data.protected_positions :
        Holds(ToGrid(e.system_offset, pt[1]), pt[2])}

Install(e) ==
  /\ grid_state' = e.grid_state
  /\ system_offset' = e.system_offset
  /\ selected_cell_reference' = e.selected_cell_reference
  /\ selection_coordinates' = e.selection_coordinates
  /\ selection_tally' = e.selection_tally
  /\ forced_pipeline' = e.forced_pipeline
  /\ prefill_data' = e.prefill_data
  /\ initial_placement_done' = e.initial_placement_done
  /\ iteration' = e.iteration
  /\ feasibility_layer' = e.feasibility_layer
  /\ random_selector' = e.random_selector

Record(e, step) ==
  /\ last' = [step EXCEPT !.dl = e.dl]
  /\ deadlock_history' =
       IF e.dl.happened
       THEN [w \in DOMAIN deadlock_history \cup {e.dl.center} |->
               IF w = e.dl.center
               THEN (IF w \in DOMAIN deadlock_history THEN deadlock_history[w] ELSE 0) + 1
               ELSE deadlock_history[w]]
       ELSE deadlock_history
  /\ owed' =
       (owed \cup {pt \in e.prefill_data.protected_positions : pt[1] \in e.dl.requeued})
          \ Restored(e)

\* the end of a step: the executor's fields, what the call returned, and where
\* the control is
Return(e, step, returned, next_pc) ==
  /\ Install(e)
  /\ Record(e, step)
  /\ result' = returned
  /\ pc' = next_pc

\* the end of a step that placed a tile
ReturnPlaced(e, step) == Return(e, step, placing_call_returns(e), "idle")

\* the state after construction, with the control at the given place
Constructed(c, e, at, first_probe) ==
  /\ config = c
  /\ probability_influence_matrices = e.probability_influence_matrices
  /\ grid_state = e.grid_state
  /\ system_offset = e.system_offset
  /\ selected_cell_reference = e.selected_cell_reference
  /\ selection_coordinates = e.selection_coordinates
  /\ selection_tally = e.selection_tally
  /\ forced_pipeline = e.forced_pipeline
  /\ prefill_data = e.prefill_data
  /\ initial_placement_done = e.initial_placement_done
  /\ iteration = e.iteration
  /\ feasibility_layer = e.feasibility_layer
  /\ random_selector = e.random_selector
  /\ pc = at
  /\ result = "none"
  /\ last = NoStep
  /\ deadlock_history = << >>
  /\ owed = {}
  /\ viable_tiles_cache = << >>
  /\ probe = first_probe

Init ==
  \E c \in ConfigChoices, seed_tile \in Colors :
     Constructed(c, from_image_processor(c, seed_tile), "idle", NoProbe)

\* apply_prefill, called once before the first iteration
ApplyPrefill ==
  /\ pc = "idle"
  /\ iteration = 0
  /\ ~prefill_data.some
  /\ \E img \in PrefillImages :
        Return(apply_prefill(Self, from_png(img)),
               [NoStep EXCEPT !.source = "apply_prefill"], result, pc)
  /\ UNCHANGED << config, probability_influence_matrices, viable_tiles_cache, probe >>

\* run_iteration, up to its return or to the call of select_random_position
RunIteration ==
  /\ pc = "idle"
  /\ result # "error"
  /\ iteration < IterationBudget
  /\ LET Place(d) ==
           IF d.source = "stochastic"
           THEN Return(d.e, NoStep, "none", "select")
           ELSE ReturnPlaced(
                  post_placement_updates(place_tile(d.e, d)),
                  [ source |-> d.source,
                    position |-> d.world_position,
                    tile |-> d.tile_reference,
                    in_grid |-> InGrid(d.e.grid_state,
                                       ToGrid(d.e.system_offset, d.world_position)),
                    dl |-> NoDeadlock ])
         Begin(e0) ==
           IF check_completion(e0)
           THEN Return(e0, NoStep, "completed", "idle")
           ELSE Place(get_placement_decision(e0))
     IN Begin([Self EXCEPT !.iteration = @ + 1])
  /\ UNCHANGED << config, probability_influence_matrices, viable_tiles_cache, probe >>

\* select_random_position: one pass; after a deadlock it calls itself, with
\* the control then at `again`
SelectionPass(again) ==
  /\ pc = "select"
  /\ LET Tile(e0, world_position, viable_tiles, selected_pos) ==
           IF viable_tiles = {}
           THEN Return([resolve_deadlock(e0, selected_pos) EXCEPT !.forced_pipeline = << >>],
                       [NoStep EXCEPT !.source = "retry"], "none", again)
           ELSE \E tile_reference \in viable_tiles :
                  ReturnPlaced(
                    post_placement_updates(
                      place_tile([e0 EXCEPT !.random_selector =
                                    log_weighted_choice(@, Cardinality(viable_tiles))],
                                 [world_position |-> world_position,
                                  tile_reference |-> tile_reference])),
                    [ source |-> "stochastic",
                      position |-> world_position,
                      tile |-> tile_reference,
                      in_grid |-> TRUE,
                      dl |-> NoDeadlock ])
         Position(e0, selected_pos, world_position) ==
           Tile(e0, world_position,
                compute_viable_tiles_at_position(e0.grid_state, world_position,
                                                 e0.system_offset),
                selected_pos)
         Select(e0, candidates) ==
           IF candidates = {}
           THEN Return(e0, NoStep, "error", "idle")
           ELSE \E selected_pos \in candidates :
                  Position([e0 EXCEPT !.random_selector =
                              weighted_choice(@, TotalWeightPositive(e0))],
                           selected_pos, ToWorld(e0.system_offset, selected_pos))
     IN Select(Self, SelectionCandidates(Self))
  /\ UNCHANGED << config, probability_influence_matrices, viable_tiles_cache, probe >>

\* the call and the pass it enters taken as one step
SelectRandomPosition == SelectionPass("select")

Next == ApplyPrefill \/ RunIteration \/ SelectRandomPosition

Spec == Init /\ [][Next]_vars

\* ------------------------------------------------- the retry told apart
\* the pass up to the call `return self.select_random_position()`
SelectRandomPositionPass == SelectionPass("retry")

\* variant of the call that never enters the method
RetrySelection_never ==
  /\ pc = "retry"
  /\ UNCHANGED vars

\* the call of select_random_position by itself
RetrySelection ==
  /\ pc = "retry"
  /\ pc' = "select"
  /\ UNCHANGED << config, probability_influence_matrices, grid_state, system_offset, selected_cell_reference, selection_coordinates, selection_tally, forced_pipeline, prefill_data, initial_placement_done, iteration, feasibility_layer, random_selector, result, last, deadlock_history, owed, viable_tiles_cache, probe >>

FairNext == ApplyPrefill \/ RunIteration \/ SelectRandomPositionPass \/ RetrySelection

\* a pass of select_random_position ends by returning or by calling the
\* method again; run_iteration is one thread of control, so a pass that was
\* entered ends and a call that was made is entered. Every pass moves the
\* control away from "select", which is what the first condition is stated on.
PassEnds == pc = "select" /\ pc' \in {"retry", "idle"}

FairSpec == Init /\ [][FairNext]_vars /\ WF_pc(PassEnds) /\ WF_vars(RetrySelection)

\* ------------------------------------------------ cells locked by the caller
\* grid_state is a public field of the executor and locked_tiles a public
\* field of the grid: between two calls of run_iteration a caller locks every
\* cell the selection could still draw, and the iterations go on.
LockValidCells ==
  /\ pc = "idle"
  /\ ValidCells(Self) # {}
  /\ \E tile \in Colors :
        grid_state' =
          [grid_state EXCEPT
             !.locked_tiles =
                 [p \in DOMAIN grid_state.locked_tiles |->
                    IF p \in ValidCells(Self) THEN tile + 1
                    ELSE grid_state.locked_tiles[p]]]
  /\ UNCHANGED << config, probability_influence_matrices, system_offset,
                  selected_cell_reference, selection_coordinates, selection_tally,
                  forced_pipeline, prefill_data, initial_placement_done, iteration,
                  feasibility_layer, random_selector, pc, result, last,
                  deadlock_history, owed, viable_tiles_cache, probe >>

CallerNext == ApplyPrefill \/ RunIteration \/ SelectRandomPosition \/ LockValidCells

CallerSpec == Init /\ [][CallerNext]_vars

\* ------------------------------------------- the grid operations on their own
\* extend_if_needed, place_tile and resolve_spatial_deadlock applied to the
\* grid of a constructed executor with arguments of the caller's choice
MaxGridSteps == 2

ProbeCoordinates ==
  { <<0, 0>>, <<1, 0>>, <<-2, 0>>, <<0, 2>>, <<-1, -2>>, <<2, 1>> }

ProbeRadii == {0, 1}

Snapshot(e) ==
  [ grid_state |-> e.grid_state,
    system_offset |-> e.system_offset,
    selection_tally |-> e.selection_tally ]

\* the end of an operation applied on its own
Probed(e, p) ==
  /\ Install(e)
  /\ probe' = p
  /\ UNCHANGED << config, probability_influence_matrices, pc, result, last,
                  deadlock_history, owed, viable_tiles_cache >>

\* the exemplars of the executors the operations are applied to: the second
\* holds a colour on one pixel only. The three operations depend on the
\* exemplar through its number of colours and its influence matrices.
GridExemplars ==
  { Exemplar,
    << <<1, 1, 1>>,
       <<1, 2, 1>>,
       <<1, 1, 1>> >> }

GridInit ==
  \E c \in ConfigChoices, seed_tile \in Colors, img \in GridExemplars :
     Constructed(c,
                 [from_image_processor(c, seed_tile) EXCEPT
                    !.probability_influence_matrices =
                        compute_probability_influence_matrices(img)],
                 "grid", NoProbe)

ExtendIfNeeded ==
  /\ pc = "grid"
  /\ iteration < MaxGridSteps
  /\ \E coordinates \in ProbeCoordinates, radius \in ProbeRadii :
        LET Extended(ext) ==
              Probed([Self EXCEPT !.grid_state = ext.grid,
                                  !.system_offset = ext.offset,
                                  !.iteration = @ + 1],
                     [ op |-> "extend_if_needed",
                       before |-> Snapshot(Self),
                       coordinates |-> coordinates,
                       radius |-> radius,
                       tile |-> 0,
                       extended |-> ext.extended,
                       unlocked_positions |-> << >> ])
        IN Extended(extend_if_needed(grid_state, system_offset, coordinates, radius))

PlaceTile ==
  /\ pc = "grid"
  /\ iteration < MaxGridSteps
  /\ \E coordinates \in ProbeCoordinates, tile \in Colors :
        /\ StillEmpty(Self, coordinates, TRUE)
        /\ Probed([place_tile(Self, [world_position |-> coordinates,
                                     tile_reference |-> tile])
                     EXCEPT !.iteration = @ + 1],
                  [ op |-> "place_tile",
                    before |-> Snapshot(Self),
                    coordinates |-> coordinates,
                    radius |-> grid_extension_radius,
                    tile |-> tile,
                    extended |-> FALSE,
                    unlocked_positions |-> << >> ])

\* place_tile at a coordinate, then resolve_spatial_deadlock centred on its cell
PlaceAndRevert ==
  /\ pc = "grid"
  /\ iteration < MaxGridSteps
  /\ \E coordinates \in ProbeCoordinates, tile \in Colors :
        LET Reverted(e1, res) ==
              Probed([e1 EXCEPT !.grid_state = res.grid,
                                !.feasibility_layer = res.layer,
                                !.selection_tally = res.tally,
                                !.iteration = @ + 1],
                     [ op |-> "place_and_revert",
                       before |-> Snapshot(Self),
                       coordinates |-> coordinates,
                       radius |-> res.removal_radius,
                       tile |-> tile,
                       extended |-> FALSE,
                       unlocked_positions |-> res.unlocked_positions ])
            Placed1(e1, cell) ==
              /\ InGrid(e1.grid_state, cell)
              /\ Reverted(e1, resolve_spatial_deadlock(e1.grid_state,
                                                       e1.feasibility_layer,
                                                       e1.probability_influence_matrices,
                                                       cell, e1.system_offset,
                                                       e1.selection_tally))
            Place(e1) == Placed1(e1, ToGrid(e1.system_offset, coordinates))
        IN /\ StillEmpty(Self, coordinates, TRUE)
           /\ Place(place_tile(Self, [world_position |-> coordinates,
                                      tile_reference |-> tile]))

\* ---------------------------------------- the forced pipeline on its own
\* add_positions and take_next called with batches of the caller's choice.
\* Every offered position carries the time it was offered at (call, index).
MaxPipelineCalls == 3

PipelineCoordinates == { <<0, 1>>, <<1, 0>>, <<1, 1>> }

\* the lengths of the batches offered
BatchLengths == 0..2

Batches ==
  UNION {[1..n -> [coordinates : PipelineCoordinates, tile_reference : Colors]] :
           n \in BatchLengths}

Offered(positions, call) ==
  [k \in 1..Len(positions) |->
     [ coordinates |-> positions[k].coordinates,
       tile_reference |-> positions[k].tile_reference,
       offered_at |-> call * Cardinality(BatchLengths) + k ]]

PipelineInit ==
  Constructed([some |-> FALSE, width |-> 0, height |-> 0],
              from_image_processor([some |-> FALSE, width |-> 0, height |-> 0], 1),
              "pipeline", NoProbe)

AddPositions ==
  /\ pc = "pipeline"
  /\ iteration < MaxPipelineCalls
  /\ \E positions \in Batches :
        LET Added(offered) ==
              Probed([Self EXCEPT !.forced_pipeline = add_positions(@, offered),
                                  !.iteration = @ + 1],
                     [ op |-> "add_positions",
                       before |-> forced_pipeline,
                       offered |-> offered,
                       returned |-> << >> ])
        IN Added(Offered(positions, iteration))

TakeNext ==
  /\ pc = "pipeline"
  /\ iteration < MaxPipelineCalls
  /\ LET Taken(next) ==
            Probed([Self EXCEPT !.forced_pipeline = next.queue,
                                !.iteration = @ + 1],
                   [ op |-> "take_next",
                     before |-> forced_pipeline,
                     offered |-> << >>,
                     returned |-> IF next.some THEN << next.position >> ELSE << >> ])
     IN Taken(take_next(forced_pipeline))

PipelineNext == AddPositions \/ TakeNext

PipelineSpec == PipelineInit /\ [][PipelineNext]_vars

\* ------------------------------------------ the viable-tile cache on its own
\* compute_viable_tiles_at_position called through one cache on grids that
\* change between the calls
MaxCacheSteps == 3

CacheConfigs ==
  { [some |-> FALSE, width |-> 0, height |-> 0],
    [some |-> TRUE, width |-> 2, height |-> 4] }

CachePositions == { <<0, 0>>, <<1, 0>>, <<0, 1>>, <<-1, -1>> }

CacheInit ==
  \E c \in CacheConfigs : Constructed(c, from_image_processor(c, 1), "cache", NoProbe)

CachePlaceTile ==
  /\ pc = "cache"
  /\ iteration < MaxCacheSteps
  /\ \E coordinates \in CachePositions, tile \in Colors :
        /\ StillEmpty(Self, coordinates, TRUE)
        /\ Probed([place_tile(Self, [world_position |-> coordinates,
                                     tile_reference |-> tile])
                     EXCEPT !.iteration = @ + 1],
                  [op |-> "place_tile"])

ComputeViable ==
  /\ pc = "cache"
  /\ iteration < MaxCacheSteps
  /\ \E position \in CachePositions :
        LET Computed(r) ==
              /\ viable_tiles_cache' = r.cache
              /\ probe' = [ op |-> "compute_viable_tiles_at_position",
                            before |-> viable_tiles_cache,
                            position |-> position,
                            viable |-> r.viable,
                            misses |-> r.misses ]
        IN Computed(compute_viable_tiles_cached(grid_state, position, system_offset,
                                                viable_tiles_cache))
  /\ Install([Self EXCEPT !.iteration = @ + 1])
  /\ UNCHANGED << config, probability_influence_matrices, pc, result, last,
                  deadlock_history, owed >>

CacheNext == CachePlaceTile \/ ComputeViable

CacheSpec == CacheInit /\ [][CacheNext]_vars

\* ------------------------------------- the contradiction scan on its own
\* tiles are placed at any of these positions, and check_for_contradiction
\* is applied to the grid as it is
ScanPositions == { <<0, 0>>, <<1, 0>>, <<0, 1>>, <<-1, -1>> }

ScanInit ==
  \E c \in CacheConfigs : Constructed(c, from_image_processor(c, 1), "scan", NoProbe)

ScanPlaceTile ==
  /\ pc = "scan"
  /\ iteration < MaxCacheSteps
  /\ \E coordinates \in ScanPositions, tile \in Colors :
        /\ StillEmpty(Self, coordinates, TRUE)
        /\ Probed([place_tile(Self, [world_position |-> coordinates,
                                     tile_reference |-> tile])
                     EXCEPT !.iteration = @ + 1],
                  [op |-> "place_tile"])

\* check_for_contradiction; the grid is left alone
CheckForContradiction ==
  /\ pc = "scan"
  /\ probe.op # "check_for_contradiction"
  /\ probe' = [ op |-> "check_for_contradiction",
                found |-> check_for_contradiction(grid_state, system_offset) ]
  /\ UNCHANGED << config, probability_influence_matrices, grid_state, system_offset, selected_cell_reference, selection_coordinates, selection_tally, forced_pipeline, prefill_data, initial_placement_done, iteration, feasibility_layer, random_selector, pc, result, last, deadlock_history, owed, viable_tiles_cache >>

ScanNext == ScanPlaceTile \/ CheckForContradiction

ScanSpec == ScanInit /\ [][ScanNext]_vars

\* --------------------------------------- the dispatch rules on their own
\* build_boolean_reference_rules for the tiles of an exemplar, read under the
\* membership mask of a 3x3 pattern; every pattern over 0..U is tried
RuleExemplars ==
  { Exemplar,
    << <<1, 1, 1, 2, 2>>,
       <<1, 1, 1, 2, 2>>,
       <<1, 1, 1, 2, 2>> >>,
    << <<1, 2, 2, 2>>,
       <<1, 1, 2, 2>>,
       <<1, 1, 2, 2>> >> }

\* the 3x3 patterns over 0..U, 0 for a cell without a tile
PatternsOverColors == [TileIdx -> [TileIdx -> 0..unique_cell_count]]

RulesInit ==
  \E img \in RuleExemplars, tile_pattern \in PatternsOverColors :
     Constructed([some |-> FALSE, width |-> 0, height |-> 0],
                 from_image_processor([some |-> FALSE, width |-> 0, height |-> 0], 1),
                 "rules",
                 [ op |-> "none",
                   tiles |-> extract_tiles(img, include_rotations, include_reflections),
                   tile_pattern |-> tile_pattern,
                   tile_booleans |-> << >>,
                   potential_sources |-> {} ])

\* the lookup find_compatible_values_at_offset_bitset starts with
LookupRules ==
  /\ pc = "rules"
  /\ probe.op = "none"
  /\ LET Sources(tile_booleans) ==
            probe' = [probe EXCEPT
                        !.op = "dispatch_rules.get",
                        !.tile_booleans = tile_booleans,
                        !.potential_sources =
                            build_boolean_reference_rules(probe.tiles, tile_booleans)]
     IN Sources(convert_tile_to_membership_booleans(probe.tile_pattern))
  /\ UNCHANGED << config, probability_influence_matrices, grid_state, system_offset,
                  selected_cell_reference,
                  selection_coordinates, selection_tally, forced_pipeline, prefill_data,
                  initial_placement_done, iteration, feasibility_layer, random_selector, pc, result,
                  last, deadlock_history, owed, viable_tiles_cache >>

RulesNext == LookupRules

RulesSpec == RulesInit /\ [][RulesNext]_vars

GridNext == ExtendIfNeeded \/ PlaceTile \/ PlaceAndRevert

GridSpec == GridInit /\ [][GridNext]_vars

\* ------------------------------------ selections of any outcome
\* select_random_position taken with its outcome left open: once, between
\* two calls of run_iteration, a tile of any colour is placed next to the origin
\* on a cell that is valid, as a selection with unknown weights and an
\* unchecked tile would, and the updates of a placing call follow. Only the
\* runs without bounds are opened this way: in them the forced positions of
\* the exemplar keep the pipeline filled otherwise.
PlaceAnyValid ==
  /\ pc = "idle"
  /\ result = "continued"
  /\ ~config.some
  /\ probe.op # "place_any"
  /\ \E coordinates \in { <<1, 0>>, <<0, 1>> }, tile \in Colors :
        /\ ToGrid(system_offset, coordinates) \in ValidCells(Self)
        /\ ReturnPlaced(
             post_placement_updates(
               place_tile(Self, [world_position |-> coordinates,
                                 tile_reference |-> tile])),
             [ source |-> "stochastic",
               position |-> coordinates,
               tile |-> tile,
               in_grid |-> TRUE,
               dl |-> NoDeadlock ])
  /\ probe' = [op |-> "place_any"]
  /\ UNCHANGED << config, probability_influence_matrices, viable_tiles_cache >>

OpenNext == ApplyPrefill \/ RunIteration \/ SelectRandomPosition \/ PlaceAnyValid

OpenSpec == Init /\ [][OpenNext]_vars

\* ------------------------------------- the growth of the grid on its own
\* extend_if_needed in unbounded mode, followed through the dimensions and
\* the offset alone: the padding it calculates and the new dimensions depend
\* on no cell of the grid. The coordinates are the caller's choice.
MAX_GRID_DIMENSION == 10000

MaxExtentCalls == 3

FarCoordinates ==
  { <<0, 0>>, <<1, 0>>, <<0, -2>>, <<-4000, 2>>, <<3, 6000>>, <<6001, 0>>, <<0, -5000>> }

ExtentInit ==
  LET Start(e) ==
        Constructed([some |-> FALSE, width |-> 0, height |-> 0], e, "extent",
                    [ op |-> "none", calls |-> 0, coordinates |-> <<0, 0>>,
                      dimensions |-> e.grid_state.dimensions,
                      offset |-> e.system_offset, extended |-> FALSE ])
  IN \E seed_tile \in Colors :
        Start(from_image_processor([some |-> FALSE, width |-> 0, height |-> 0],
                                   seed_tile))

\* GridState::extend_if_needed without generation_bounds: the new dimensions,
\* the offset it returns and whether it extended
ExtendDimensions ==
  /\ pc = "extent"
  /\ probe.calls < MaxExtentCalls
  /\ \E coordinates \in FarCoordinates :
        LET Extended(info) ==
              probe' =
                [ op |-> "extend_if_needed",
                  calls |-> probe.calls + 1,
                  coordinates |-> coordinates,
                  dimensions |->
                     IF info.needs_extension
                     THEN << probe.dimensions[1] + info.pad_left + info.pad_right,
                             probe.dimensions[2] + info.pad_top + info.pad_bottom >>
                     ELSE probe.dimensions,
                  offset |-> IF info.needs_extension THEN info.new_offset
                             ELSE probe.offset,
                  extended |-> info.needs_extension ]
        IN Extended(calculate_extension(probe.dimensions, probe.offset, coordinates,
                                        grid_extension_radius))
  /\ UNCHANGED << config, probability_influence_matrices, grid_state, system_offset,
                  selected_cell_reference, selection_coordinates, selection_tally,
                  forced_pipeline, prefill_data, initial_placement_done, iteration,
                  feasibility_layer, random_selector, pc, result, last,
                  deadlock_history, owed, viable_tiles_cache >>

ExtentNext == ExtendDimensions

ExtentSpec == ExtentInit /\ [][ExtentNext]_vars

\* ------------------------------------------- the top-k passes on their own
\* top_k_valid_indices and top_k_from_indices on a matrix of their own: every
\* 2x2 matrix over three values, every validity mask, every index list
\* without a repeated index, every k up to MaxTopK
MaxTopK == 3

TopKCells == Cells(2, 2)

TopKValues == 0..2

IndexLists ==
  {indices \in UNION {[1..n -> TopKCells] : n \in 0..Cardinality(TopKCells)} :
     \A a \in DOMAIN indices, b \in DOMAIN indices : indices[a] = indices[b] => a = b}

TopKInit ==
  \E matrix \in [TopKCells -> TopKValues], k \in 0..MaxTopK :
     Constructed([some |-> FALSE, width |-> 0, height |-> 0],
                 from_image_processor([some |-> FALSE, width |-> 0, height |-> 0], 1),
                 "top_k",
                 [ op |-> "none", matrix |-> matrix, k |-> k,
                   given |-> << >>, returned |-> << >> ])

SelectValid ==
  /\ pc = "top_k"
  /\ probe.op = "none"
  /\ \E validity \in SUBSET TopKCells :
        \E returned \in top_k_valid_indices_of(probe.matrix, validity, probe.k) :
           probe' = [probe EXCEPT !.op = "top_k_valid_indices",
                                  !.given = RowMajor(validity),
                                  !.returned = returned]
  /\ UNCHANGED << config, probability_influence_matrices, grid_state, system_offset,
                  selected_cell_reference, selection_coordinates, selection_tally,
                  forced_pipeline, prefill_data, initial_placement_done, iteration,
                  feasibility_layer, random_selector, pc, result, last,
                  deadlock_history, owed, viable_tiles_cache >>

SelectFrom ==
  /\ pc = "top_k"
  /\ probe.op = "none"
  /\ \E indices \in IndexLists :
        \E returned \in top_k_from_indices(probe.matrix, indices, probe.k) :
           probe' = [probe EXCEPT !.op = "top_k_from_indices",
                                  !.given = indices,
                                  !.returned = returned]
  /\ UNCHANGED << config, probability_influence_matrices, grid_state, system_offset,
                  selected_cell_reference, selection_coordinates, selection_tally,
                  forced_pipeline, prefill_data, initial_placement_done, iteration,
                  feasibility_layer, random_selector, pc, result, last,
                  deadlock_history, owed, viable_tiles_cache >>

TopKNext == SelectValid \/ SelectFrom

TopKSpec == TopKInit /\ [][TopKNext]_vars

\* ------------------------------------------ the tile extraction on its own
\* TileExtractor::extract_tiles on exemplars of its own: every image of the
\* shapes below over two colours, with each choice of the two flags.
\* from_image_processor hands it whatever the image holds, of any size.
ExemplarShapes == { <<2, 2>>, <<3, 2>>, <<3, 3>>, <<3, 4>> }

ExemplarPixels == 1..2

ExemplarImages ==
  UNION { [1..shape[1] -> [1..shape[2] -> ExemplarPixels]] : shape \in ExemplarShapes }

TilesInit ==
  \E img \in ExemplarImages, rotations \in BOOLEAN, reflections \in BOOLEAN :
     Constructed([some |-> FALSE, width |-> 0, height |-> 0],
                 from_image_processor([some |-> FALSE, width |-> 0, height |-> 0], 1),
                 "tiles",
                 [ op |-> "none", img |-> img, rotations |-> rotations,
                   reflections |-> reflections, tiles |-> << >> ])

ExtractTiles ==
  /\ pc = "tiles"
  /\ probe.op = "none"
  /\ probe' = [probe EXCEPT
                 !.op = "extract_tiles",
                 !.tiles = extract_tiles(probe.img, probe.rotations, probe.reflections)]
  /\ UNCHANGED << config, probability_influence_matrices, grid_state, system_offset,
                  selected_cell_reference, selection_coordinates, selection_tally,
                  forced_pipeline, prefill_data, initial_placement_done, iteration,
                  feasibility_layer, random_selector, pc, result, last,
                  deadlock_history, owed, viable_tiles_cache >>

TilesNext == ExtractTiles

TilesSpec == TilesInit /\ [][TilesNext]_vars

\* ------------------------------------------------------------------ claims
InBounds(p) ==
  contains(grid_state.generation_bounds, ToWorld(system_offset, p))

\* C1: after apply_prefill and after every run_iteration step, whatever it
\* placed and unlocked, the sum of selection_tally equals the number of grid
\* cells whose locked_tiles value is >= 2.
C1_TallyConservation ==
  TallySum(selection_tally) = Cardinality(LockedCells(grid_state))

\* a deadlock resolution unlocked tiles and left others locked
C1_Witness ==
  /\ last.dl.unlocked # {}
  /\ TallySum(selection_tally) >= 1

\* C2: when generation_bounds is set, every locked cell has its world
\* coordinate inside generation_bounds.
C2_Bounds ==
  grid_state.generation_bounds.some =>
     \A p \in LockedCells(grid_state) : InBounds(p)

\* a stochastic placement in a grid that holds cells outside the bounds
C2_Witness ==
  /\ grid_state.generation_bounds.some
  /\ last.source = "stochastic"
  /\ \E p \in Cells(grid_state.dimensions[1], grid_state.dimensions[2]) : ~InBounds(p)

CellUnlocked(world_position) ==
  LET cell == ToGrid(system_offset, world_position)
  IN InGrid(grid_state, cell) => grid_state.locked_tiles[cell] <= 1

PrefillOffers ==
  IF prefill_data.some
  THEN {k \in 1..Len(prefill_data.placement_queue) :
          CellUnlocked(prefill_data.placement_queue[k].world_position)}
  ELSE {}

ForcedOffers ==
  {k \in 1..Len(forced_pipeline) :
     /\ InGrid(grid_state, ToGrid(system_offset, forced_pipeline[k].coordinates))
     /\ CellUnlocked(forced_pipeline[k].coordinates)}

First(S) == CHOOSE k \in S : \A j \in S : k <= j

Placed(source, world_position, tile) ==
  /\ last'.source = source
  /\ last'.position = world_position
  /\ last'.tile = tile

\* C4: a run_iteration that is not complete places (1) the seeded tile at
\* world (0,0) if there is no prefill and nothing was placed yet, else (2) the
\* first prefill entry whose cell is unlocked, the entries before it being
\* discarded, else (3) the first forced entry whose cell is in the grid and
\* unlocked, and enters stochastic selection only when (1)-(3) yield nothing.
C4_Priority ==
  [][ /\ (pc = "idle" /\ iteration' = iteration + 1 /\ result' # "completed") =>
           IF ~initial_placement_done /\ ~prefill_data.some
           THEN Placed("seed", <<0, 0>>, selected_cell_reference)
           ELSE IF PrefillOffers # {}
           THEN LET entry == prefill_data.placement_queue[First(PrefillOffers)]
                IN /\ Placed("prefill", entry.world_position, entry.tile_reference)
                   /\ ~last'.dl.happened =>
                         prefill_data'.placement_queue =
                            SubSeq(prefill_data.placement_queue, First(PrefillOffers) + 1,
                                   Len(prefill_data.placement_queue))
           ELSE IF ForcedOffers # {}
           THEN LET entry == forced_pipeline[First(ForcedOffers)]
                IN /\ Placed("forced", entry.coordinates, entry.tile_reference)
                   /\ prefill_data'.placement_queue = << >>
           ELSE /\ pc' = "select"
                /\ prefill_data'.placement_queue = << >>
                /\ forced_pipeline' = << >>
      /\ (last'.source \in {"stochastic", "retry"}) => pc = "select" ]_vars

\* stochastic selection is entered after a prefill entry for a locked cell
\* was discarded
C4_Witness ==
  /\ pc = "select"
  /\ owed # {}
  /\ prefill_data.placement_queue = << >>

TallyReachesArea ==
  /\ grid_state.generation_bounds.some
  /\ TallySum(selection_tally) >= Area(grid_state.generation_bounds)

\* C5: a run_iteration call returns 'completed' exactly when the bounds are
\* set and the tally sum is >= area(bounds) at its start; it then places no
\* tile and leaves the grid, the tally, the offset and the queues unchanged;
\* after 'completed' every later call returns 'completed'; without bounds no
\* call returns 'completed'.
C5_Completion ==
  [][ /\ (iteration' = iteration + 1) =>
           ((result' = "completed") <=> TallyReachesArea)
      /\ (iteration' = iteration) => (result' # "completed")
      /\ (result' = "completed") =>
           UNCHANGED << grid_state, selection_tally, system_offset,
                        forced_pipeline, prefill_data >>
      /\ (result = "completed" /\ iteration' = iteration + 1) =>
           (result' = "completed")
      /\ (~grid_state.generation_bounds.some) => (result' # "completed") ]_vars

\* a filled 2x2 rectangle whose completion was reported by several calls
C5_Witness ==
  /\ result = "completed"
  /\ TallySum(selection_tally) = 4
  /\ iteration >= TallySum(selection_tally) + 3

\* C6: for config bounds (w, h) the generation bounds hold exactly w*h world
\* cells, and when completion is reported exactly w*h cells are locked, all
\* of them inside the bounds.
C6_FillsRequestedRectangle ==
  (config.some /\ ~prefill_data.some) =>
     /\ Area(grid_state.generation_bounds) = config.width * config.height
     /\ (result = "completed") =>
          /\ Cardinality(LockedCells(grid_state)) = config.width * config.height
          /\ \A p \in LockedCells(grid_state) : InBounds(p)

ReachesArea ==
  /\ grid_state.generation_bounds.some
  /\ TallySum(selection_tally) < Area(grid_state.generation_bounds)
  /\ TallySum(selection_tally') >= Area(grid_state'.generation_bounds)

\* C7 as claimed: the step whose placement brings the tally sum up to
\* area(bounds) returns 'completed'.
C7_SameCallReports ==
  [][ ReachesArea => (result' = "completed") ]_vars

\* C7 as the code has it: the step whose placement brings the tally sum up to
\* area(bounds) returns 'continued', and the next run_iteration call, which
\* starts with the tally sum at the area, returns 'completed'.
C7_NextCallReports ==
  [][ /\ ReachesArea => (result' = "continued")
      /\ (result = "continued" /\ TallyReachesArea /\ iteration' = iteration + 1) =>
           (result' = "completed") ]_vars

\* the placing call has returned 'continued' with the rectangle full
C7_Witness ==
  /\ result = "continued"
  /\ TallyReachesArea
  /\ last.source \in {"seed", "prefill", "forced", "stochastic"}

\* C8: the k-th deadlock resolution centered on a cell leaves removal_count
\* = k there and uses radius min(BASE_REMOVAL_RADIUS + k, MAX_REMOVAL_RADIUS),
\* for cells created by grid extension too.
C8_Escalation ==
  last.dl.happened =>
     LET k == deadlock_history[last.dl.center]
     IN /\ last.dl.count = k
        /\ last.dl.radius = Min(BASE_REMOVAL_RADIUS + k, MAX_REMOVAL_RADIUS)

\* C9: a protected cell unlocked by a deadlock resolution gets a replacement
\* with its protected tile on the prefill queue, and is locked again with that
\* tile later: at the latest when completion is reported, after which nothing
\* is placed any more.
C9_PrefillProtection ==
  /\ \A w \in last.dl.requeued :
        Queued(prefill_data, w, is_protected(prefill_data, w))
  /\ (result = "completed") => (owed = {})

\* C10: after apply_prefill the grid and the generation bounds (if set)
\* contain every world coordinate of the prefill bounding box.
C10_ContainsPrefillBounds ==
  (last.source = "apply_prefill") =>
     \A r \in prefill_data.bounds.min[1]..prefill_data.bounds.max[1],
        c \in prefill_data.bounds.min[2]..prefill_data.bounds.max[2] :
        /\ InGrid(grid_state, ToGrid(system_offset, <<r, c>>))
        /\ grid_state.generation_bounds.some =>
              contains(grid_state.generation_bounds, <<r, c>>)

\* the (rows, cols) of an array of the grid
Shape(array, dims) == DOMAIN array = Cells(dims[1], dims[2])

\* C11: after construction, apply_prefill and every run_iteration the colour
\* layers of tile_probabilities, entropy, adjacency_weights, locked_tiles,
\* feasibility and removal_count all have the shape GridState.dimensions.
C11_ShapeConsistency ==
  /\ \A color \in DOMAIN grid_state.tile_probabilities :
        Shape(grid_state.tile_probabilities[color], grid_state.dimensions)
  /\ DOMAIN grid_state.tile_probabilities = Colors
  /\ Shape(grid_state.entropy, grid_state.dimensions)
  /\ Shape(grid_state.adjacency_weights, grid_state.dimensions)
  /\ Shape(grid_state.locked_tiles, grid_state.dimensions)
  /\ Shape(grid_state.feasibility, grid_state.dimensions)
  /\ Shape(grid_state.removal_count, grid_state.dimensions)

\* a prefill was applied, tiles were placed and the grid is wider than built
C11_Witness ==
  /\ C11_ShapeConsistency
  /\ prefill_data.some
  /\ last.source \in {"prefill", "forced", "stochastic"}
  /\ iteration > 1
  /\ grid_state.dimensions[2] > 5

\* the six fields of a grid at one cell
FieldsAt(g, p) ==
  [ tile_probabilities |->
      [color \in DOMAIN g.tile_probabilities |-> g.tile_probabilities[color][p]],
    entropy |-> g.entropy[p],
    adjacency_weights |-> g.adjacency_weights[p],
    locked_tiles |-> g.locked_tiles[p],
    feasibility |-> g.feasibility[p],
    removal_count |-> g.removal_count[p] ]

\* the world coordinates a grid covers under an offset
WorldCells(g, offset) ==
  {ToWorld(offset, p) : p \in Cells(g.dimensions[1], g.dimensions[2])}

Covered(g, offset, w) == InGrid(g, ToGrid(offset, w))

\* C12: every world coordinate covered before extend_if_needed is covered
\* after it under the returned offset, with the same value in each of the six
\* fields.
C12_ExtensionPreserves ==
  probe.op = "extend_if_needed" =>
    \A w \in WorldCells(probe.before.grid_state, probe.before.system_offset) :
       /\ Covered(grid_state, system_offset, w)
       /\ FieldsAt(grid_state, ToGrid(system_offset, w))
            = FieldsAt(probe.before.grid_state, ToGrid(probe.before.system_offset, w))

\* an extension that moved the offset of a grid holding a placed tile
C12_Witness ==
  /\ probe.op = "extend_if_needed"
  /\ probe.extended
  /\ system_offset[1] > probe.before.system_offset[1]
  /\ system_offset[2] > probe.before.system_offset[2]
  /\ LockedCells(probe.before.grid_state) # {}
  /\ C12_ExtensionPreserves

\* C13: every cell an extension creates starts with the value a constructed
\* grid gives the field: tile_probabilities 1.0, entropy 1.0, feasibility 1.0,
\* adjacency_weights 1, locked_tiles 1, removal_count 0.
C13_ExtensionInitialValues ==
  (probe.op = "extend_if_needed" /\ probe.extended) =>
    \A p \in Cells(grid_state.dimensions[1], grid_state.dimensions[2]) :
       ~Covered(probe.before.grid_state, probe.before.system_offset,
                ToWorld(system_offset, p))
         => FieldsAt(grid_state, p) = FieldsAt(GridState_new(1, 1), <<0, 0>>)

\* the square [coord - radius, coord + radius] of an extension lies in the grid
SquareCovered(g, offset, coordinates, radius) ==
  /\ Covered(g, offset, << coordinates[1] - radius, coordinates[2] - radius >>)
  /\ Covered(g, offset, << coordinates[1] + radius, coordinates[2] + radius >>)

\* the call returned the offset unchanged, extended = false, and left the
\* dimensions and every field as they were
ExtensionWasNoOp ==
  /\ ~probe.extended
  /\ system_offset = probe.before.system_offset
  /\ grid_state = probe.before.grid_state

\* C14 as stated: an extension whose target coordinate is inside the current
\* grid is a no-op.
C14_InsideIsNoOp ==
  (/\ probe.op = "extend_if_needed"
   /\ Covered(probe.before.grid_state, probe.before.system_offset, probe.coordinates))
    => ExtensionWasNoOp

\* C14 amended: an extension whose whole square [coord - radius, coord + radius]
\* is inside the current grid is a no-op.
C14_SquareInsideIsNoOp ==
  (/\ probe.op = "extend_if_needed"
   /\ SquareCovered(probe.before.grid_state, probe.before.system_offset,
                    probe.coordinates, probe.radius))
    => ExtensionWasNoOp

\* a no-op extension with a positive radius on a grid holding a placed tile
C14_Witness ==
  /\ probe.op = "extend_if_needed"
  /\ probe.radius > 0
  /\ SquareCovered(probe.before.grid_state, probe.before.system_offset,
                   probe.coordinates, probe.radius)
  /\ LockedCells(grid_state) # {}
  /\ ExtensionWasNoOp

\* the grid cells of the entries detect_forced_positions emits
ForcedCells(g, position, offset) ==
  LET CellsOf(forced) == {ToGrid(offset, forced[k].coordinates) : k \in 1..Len(forced)}
  IN CellsOf(detect_forced_positions(g, position, offset))

LockedNotOffered ==
  /\ LockedCells(grid_state) \cap validity_matrix(Self) = {}
  /\ LockedCells(grid_state)
       \cap top_k_valid_indices(Self, ADJACENCY_CANDIDATES_CONSIDERED) = {}
  /\ LockedCells(grid_state) \cap SelectionCandidates(Self) = {}
  /\ LockedCells(grid_state)
       \cap ForcedCells(grid_state, selection_coordinates, system_offset) = {}

LockedNotChosen ==
  last'.source = "stochastic" =>
    ToGrid(system_offset, last'.position) \notin LockedCells(grid_state)

\* C15: a locked cell (locked_tiles > 1) is invalid in
\* calculate_position_selection, is never returned by top_k_valid_indices,
\* never chosen by the stochastic selection and never emitted by
\* detect_forced_positions.
C15_LockedExcluded == [](LockedNotOffered) /\ [][LockedNotChosen]_vars

\* the stochastic selection placed a tile next to locked cells, and the scan
\* around it emits forced positions
C15_Witness ==
  /\ last.source = "stochastic"
  /\ Cardinality(LockedCells(grid_state)) >= 3
  /\ ForcedCells(grid_state, selection_coordinates, system_offset) # {}
  /\ LockedNotOffered

\* the 8 neighbours of a position at Chebyshev distance 1
ChebyshevNeighbours(position) ==
  {n \in ((position[1] - 1)..(position[1] + 1)) \X ((position[2] - 1)..(position[2] + 1)) :
     n # position}

\* the entries C16 describes for a position
ForcedExpected(g, position, offset) ==
  {[coordinates |-> n, tile_reference |-> t] :
     << n, t >> \in
        {q \in ChebyshevNeighbours(position) \X Colors :
           /\ g.generation_bounds.some => contains(g.generation_bounds, q[1])
           /\ InGrid(g, ToGrid(offset, q[1]))
           /\ g.locked_tiles[ToGrid(offset, q[1])] <= 1
           /\ compute_viable_tiles_at_position(g, q[1], offset) = {q[2]}}}

ForcedAsExpected(forced, expected) ==
  /\ Range(forced) = expected
  /\ Len(forced) = Cardinality(expected)

\* C16: around every position P, detect_forced_positions returns one entry
\* (coord, tile) for each of the 8 Chebyshev neighbours of P that is inside the
\* generation bounds (if set), inside the grid, not locked and has exactly one
\* viable tile (that tile), and nothing else.
C16_ForcedExactly ==
  \A position \in WorldCells(grid_state, system_offset) :
     ForcedAsExpected(detect_forced_positions(grid_state, position, system_offset),
                      ForcedExpected(grid_state, position, system_offset))

\* after a placement next to a locked cell and next to the bounds, the scan
\* around it emits a forced position
C16_Witness ==
  /\ last.source \in {"seed", "prefill", "forced", "stochastic"}
  /\ grid_state.generation_bounds.some
  /\ detect_forced_positions(grid_state, selection_coordinates, system_offset) # << >>
  /\ \E n \in ChebyshevNeighbours(selection_coordinates) :
        ~contains(grid_state.generation_bounds, n)
  /\ \E n \in ChebyshevNeighbours(selection_coordinates) :
        ToGrid(system_offset, n) \in LockedCells(grid_state)
  /\ C16_ForcedExactly

\* no two entries of a queue have the same coordinates
NoDuplicateCoordinates(queue) ==
  \A i \in 1..Len(queue), j \in 1..Len(queue) :
     queue[i].coordinates = queue[j].coordinates => i = j

\* the entries of a queue are in the order they were offered in
InInsertionOrder(queue) ==
  \A i \in 1..Len(queue), j \in 1..Len(queue) :
     i < j => queue[i].offered_at < queue[j].offered_at

\* after add_positions: the queued entries stay where they were, and each
\* coordinate is held by the earliest position offered for it
FirstInsertionWins ==
  /\ Len(forced_pipeline) >= Len(probe.before)
  /\ SubSeq(forced_pipeline, 1, Len(probe.before)) = probe.before
  /\ \A x \in Range(probe.before) \cup Range(probe.offered) :
        \E y \in Range(forced_pipeline) :
           /\ y.coordinates = x.coordinates
           /\ y.offered_at <= x.offered_at
  /\ Range(forced_pipeline) \subseteq Range(probe.before) \cup Range(probe.offered)

\* after take_next: it returned the entry offered first and left the others
OldestTaken ==
  IF probe.before = << >>
  THEN probe.returned = << >> /\ forced_pipeline = << >>
  ELSE /\ Len(probe.returned) = 1
       /\ \A x \in Range(probe.before) : probe.returned[1].offered_at <= x.offered_at
       /\ Range(forced_pipeline) = Range(probe.before) \ Range(probe.returned)
       /\ Len(forced_pipeline) = Len(probe.before) - 1

\* C17: the forced pipeline is a FIFO queue deduplicated by coordinate, first
\* insertion wins: it never holds two entries with the same coordinates, an
\* added entry whose coordinate is already queued is dropped, and take_next
\* returns the entries in insertion order.
C17_FifoDeduplicated ==
  /\ NoDuplicateCoordinates(forced_pipeline)
  /\ InInsertionOrder(forced_pipeline)
  /\ probe.op = "add_positions" => FirstInsertionWins
  /\ probe.op = "take_next" => OldestTaken

\* take_next returned the older of two entries that were queued by different
\* calls of add_positions
C17_Witness ==
  /\ probe.op = "take_next"
  /\ Len(probe.before) >= 2
  /\ Len(probe.returned) = 1
  /\ iteration = 3
  /\ probe.before[2].offered_at > Cardinality(BatchLengths)
  /\ probe.before[2].offered_at > probe.before[1].offered_at + 2
  /\ C17_FifoDeduplicated

\* every stored bitset is what a computation from scratch gives for its key
StoredIsComputed(cache) ==
  \A pattern_key \in DOMAIN cache :
     cache[pattern_key]
       = find_compatible_values_at_offset_bitset(KeyPattern(pattern_key),
                                                 pattern_key[2], pattern_key[3])

\* compute_fn ran once for each key that was not stored, and for no other
ComputedOnlyWhenMissing ==
  /\ Range(probe.misses) \cap DOMAIN probe.before = {}
  /\ Len(probe.misses) = Cardinality(Range(probe.misses))
  /\ DOMAIN viable_tiles_cache = DOMAIN probe.before \cup Range(probe.misses)
  /\ \A pattern_key \in DOMAIN probe.before :
        viable_tiles_cache[pattern_key] = probe.before[pattern_key]

\* the call returned what it returns with an empty cache, and what the
\* computation without a cache gives
SameAsCold ==
  /\ probe.viable
       = compute_viable_tiles_cached(grid_state, probe.position, system_offset,
                                     << >>).viable
  /\ probe.viable
       = compute_viable_tiles_at_position(grid_state, probe.position, system_offset)

\* C18: get_or_compute_pattern runs compute only the first time a key is
\* seen and returns the stored bitset afterwards; every stored bitset equals
\* find_compatible_values_at_offset_bitset computed from scratch for its key;
\* compute_viable_tiles_at_position returns the same with a warm cache as with
\* an empty one.
C18_CacheSound ==
  /\ StoredIsComputed(viable_tiles_cache)
  /\ probe.op = "compute_viable_tiles_at_position" =>
        (ComputedOnlyWhenMissing /\ SameAsCold)

\* a call answered from a warm cache alone, on a grid with placed tiles, that
\* found viable tiles
C18_Witness ==
  /\ probe.op = "compute_viable_tiles_at_position"
  /\ probe.before # << >>
  /\ probe.misses = << >>
  /\ probe.viable # {}
  /\ probe.viable # Colors
  /\ LockedCells(grid_state) # {}
  /\ C18_CacheSound

\* the 1-based ids of the tiles that match a pattern under the wildcard rule
MatchingTiles(tiles, tile_pattern) ==
  {index \in 1..Len(tiles) : PatternMatches(tile_pattern, tiles[index])}

\* C19: for every 3x3 pattern p over 0..U (0 = wildcard) the tile list stored
\* by build_boolean_reference_rules under the membership mask of p contains
\* the 1-based id of every source tile that matches p under the wildcard rule;
\* a mask with no entry means that no tile matches.
C19_RulesCoverMatches ==
  probe.op = "dispatch_rules.get" =>
    /\ MatchingTiles(probe.tiles, probe.tile_pattern) \subseteq probe.potential_sources
    /\ probe.potential_sources = {}
         => MatchingTiles(probe.tiles, probe.tile_pattern) = {}

\* a pattern with wildcards and both colours whose mask keeps some tiles that
\* match it and some that do not, and leaves a tile out
C19_Witness ==
  /\ probe.op = "dispatch_rules.get"
  /\ probe.tile_booleans = [k \in Colors |-> 1]
  /\ probe.tile_pattern[2][2] = 0
  /\ MatchingTiles(probe.tiles, probe.tile_pattern) # {}
  /\ MatchingTiles(probe.tiles, probe.tile_pattern) # probe.potential_sources
  /\ probe.potential_sources # 1..Len(probe.tiles)
  /\ C19_RulesCoverMatches

\* the fields a reversal is to restore, at a cell
RestoredFieldsAt(g, p) ==
  [ tile_probabilities |->
      [color \in DOMAIN g.tile_probabilities |-> g.tile_probabilities[color][p]],
    locked_tiles |-> g.locked_tiles[p],
    adjacency_weights |-> g.adjacency_weights[p] ]

\* the same fields of a cell the extension of the placement created
FreshFields ==
  [ tile_probabilities |-> [color \in Colors |-> padding_value_f64],
    locked_tiles |-> padding_value_u32,
    adjacency_weights |-> padding_value_u32 ]

\* the values at world coordinate w before the placement
FieldsBefore(w) ==
  IF Covered(probe.before.grid_state, probe.before.system_offset, w)
  THEN RestoredFieldsAt(probe.before.grid_state, ToGrid(probe.before.system_offset, w))
  ELSE FreshFields

\* a placement at c reverted at once by a resolution centred on c that
\* unlocked c and nothing else
RevertedAlone ==
  /\ probe.op = "place_and_revert"
  /\ probe.unlocked_positions = << ToGrid(system_offset, probe.coordinates) >>

\* C20: after a placement at an empty cell c that a resolution centred on c
\* reverts at once, unlocking c only, tile_probabilities, locked_tiles and
\* adjacency_weights hold at every world coordinate the value they held before
\* the placement (the initial value where the placement extended the grid),
\* and the tally is the tally of before.
C20_RoundTrip ==
  RevertedAlone =>
    /\ selection_tally = probe.before.selection_tally
    /\ \A w \in WorldCells(grid_state, system_offset) :
          RestoredFieldsAt(grid_state, ToGrid(system_offset, w)) = FieldsBefore(w)

\* the adjacency weight at a world coordinate
AdjacencyAt(g, offset, w) == g.adjacency_weights[ToGrid(offset, w)]

AdjacencyNotDecreased ==
  ~last'.dl.happened =>
     \A w \in WorldCells(grid_state, system_offset) :
        /\ Covered(grid_state', system_offset', w)
        /\ AdjacencyAt(grid_state', system_offset', w)
             >= AdjacencyAt(grid_state, system_offset, w)

\* C21: a step without a deadlock resolution (apply_prefill, a placement, the
\* grid extension it makes) leaves adjacency_weights at every world coordinate
\* of the grid at least as high as it was.
C21_AdjacencyMonotone == [][AdjacencyNotDecreased]_vars

\* a placement without deadlock next to an earlier one: a cell counts both
C21_Witness ==
  /\ last.source \in {"forced", "stochastic"}
  /\ ~last.dl.happened
  /\ \E p \in DOMAIN grid_state.adjacency_weights : grid_state.adjacency_weights[p] >= 5

Chebyshev(p, q) == Max(Abs(p[1] - q[1]), Abs(p[2] - q[2]))

\* the weight the levels around the placed cells account for at a cell
PlacedWeight(g, p) ==
  SumTo([level \in 1..ADJACENCY_LEVELS |->
           IF \E q \in LockedCells(g) : Chebyshev(p, q) <= level
           THEN 1 + ADJACENCY_LEVELS - level
           ELSE 0],
        ADJACENCY_LEVELS)

\* C22: between iterations every cell has adjacency_weights >= 1 + the sum,
\* over the levels whose Chebyshev ball around some placed cell holds it, of
\* the increment 1 + ADJACENCY_LEVELS - level of the level; never below 1.
C22_AdjacencyLowerBound ==
  \A p \in DOMAIN grid_state.adjacency_weights :
     grid_state.adjacency_weights[p] >= 1 + PlacedWeight(grid_state, p)

\* a cell as extension or construction made it: nothing touched it yet
Untouched(g, p) ==
  /\ g.entropy[p] = padding_value_f64
  /\ \A color \in DOMAIN g.tile_probabilities : g.tile_probabilities[color][p] = One

\* C23: after apply_prefill and every run_iteration step, every cell whose
\* tile_probabilities were multiplied or divided holds the entropy computed
\* from its current tile_probabilities, cells still locked after a deadlock
\* reversal included.
C23_EntropyInSync ==
  \A p \in DOMAIN grid_state.entropy :
     \/ Untouched(grid_state, p)
     \/ grid_state.entropy[p] = MeanNormalizedEntropy(grid_state.tile_probabilities, p)

\* no cell of the grid is both unlocked and inside the generation bounds
NoCellLeft ==
  \A p \in DOMAIN grid_state.locked_tiles :
     \/ grid_state.locked_tiles[p] > 1
     \/ /\ grid_state.generation_bounds.some
        /\ ~contains(grid_state.generation_bounds, ToWorld(system_offset, p))

\* the grid fields, the tally and the offset are the ones of before the step
GridUntouched ==
  /\ grid_state' = grid_state
  /\ selection_tally' = selection_tally
  /\ system_offset' = system_offset

NoValidPositionsSurfaced ==
  /\ (pc = "idle" /\ pc' = "select") => GridUntouched
  /\ (pc = "select" /\ NoCellLeft) =>
        /\ last = NoStep
        /\ result' = "error"
        /\ pc' = "idle"
        /\ last' = NoStep
        /\ deadlock_history' = deadlock_history
        /\ GridUntouched

\* C24: when the stochastic selection is entered and no grid cell is both
\* unlocked and inside generation_bounds, the call returns NoValidPositions,
\* places nothing, resolves no deadlock, and the six grid fields, the tally and
\* the offset are those of before the call.
C24_NoValidPositions == [][NoValidPositionsSurfaced]_vars

\* the error was returned by a call that found every cell of the grid locked
C24_Witness ==
  /\ result = "error"
  /\ NoCellLeft
  /\ LockedCells(grid_state) # {}


\* ------------------------------------------------------------------- C25
\* the 3x3 windows of grid cells that contain the cell `index`, by centre
WindowCentres(index) ==
  {<< index[1] + di, index[2] + dj >> : di \in -1..1, dj \in -1..1}

WindowInsideGrid(g, centre) ==
  /\ centre[1] - 1 >= 0 /\ centre[1] + 1 < g.dimensions[1]
  /\ centre[2] - 1 >= 0 /\ centre[2] + 1 < g.dimensions[2]

\* the colours some source tile allows at `index`, given what is locked in the
\* window around `centre` (a cell without a tile matches anything)
AllowedByWindow(g, index, centre) ==
  {tile[index[1] - centre[1] + 2][index[2] - centre[2] + 2] :
     tile \in {source_tiles[r] : r \in
                 {q \in 1..Len(source_tiles) :
                    \A i \in TileIdx, j \in TileIdx :
                       \/ g.locked_tiles[<< centre[1] + i - 2, centre[2] + j - 2 >>] = 1
                       \/ g.locked_tiles[<< centre[1] + i - 2, centre[2] + j - 2 >>] - 1
                            = source_tiles[q][i][j]}}}

ViableBySemantics(g, index) ==
  {v \in Colors :
     \A centre \in WindowCentres(index) :
        WindowInsideGrid(g, centre) => v \in AllowedByWindow(g, index, centre)}

ProbedViable == probe.op = "compute_viable_tiles_at_position"

ProbedIndex ==
  << probe.position[1] + system_offset[1], probe.position[2] + system_offset[2] >>

\* C25: for a cell of the grid, compute_viable_tiles_at_position returns
\* exactly the colours that every 3x3 window around the cell lying inside the
\* grid allows through some matching source tile.
C25_ViableSemantics ==
  (ProbedViable /\ InGrid(grid_state, ProbedIndex))
     => probe.viable = ViableBySemantics(grid_state, ProbedIndex)


\* ------------------------------------------------------------------- C26
\* the step placed a tile taken from the forced pipeline or chosen by
\* select_random_position
PlacedByForcedOrStochastic == last'.source \in {"forced", "stochastic"}

PlacedTileViable ==
  PlacedByForcedOrStochastic
     => last'.tile \in compute_viable_tiles_at_position(grid_state, last'.position,
                                                        system_offset)

\* C26: a tile placed through the forced pipeline or by stochastic selection
\* belongs to the viable set of its cell on the grid as it is just before the
\* placement.
C26_PlacedTileViable == [][PlacedTileViable]_vars

\* the world positions holding a tile
LockedWorld == {ToWorld(system_offset, p) : p \in LockedCells(grid_state)}

\* three placements without a deadlock: the seed, a tile away from the last
\* cell, and the forced tile; the entry placed last was detected next to the
\* seed and waited while the second tile was placed
C26_Witness ==
  /\ last.source = "forced"
  /\ ~prefill_data.some
  /\ deadlock_history = << >>
  /\ Cardinality(LockedWorld) = 3
  /\ <<0, 0>> \in LockedWorld
  /\ Chebyshev(<<0, 0>>, last.position) = 1
  /\ \A w \in LockedWorld \ {<<0, 0>>, last.position} : Chebyshev(w, last.position) > 1


\* ------------------------------------------------------------------- C27
PlacingSources == {"seed", "prefill", "forced", "stochastic"}

LockedValuesInRange ==
  \A p \in DOMAIN grid_state.locked_tiles :
     grid_state.locked_tiles[p] \in 1..(unique_cell_count + 1)

\* the step placed a tile on a cell that was empty or that the grid did not
\* hold yet
PlacedOnEmptyCell ==
  last'.source \in PlacingSources
     => \/ ~Covered(grid_state, system_offset, last'.position)
        \/ grid_state.locked_tiles[ToGrid(system_offset, last'.position)] = 1

\* a cell a deadlock resolution of the step unlocked reads 1
UnlockedReadOne ==
  last'.dl.happened
     => \A w \in last'.dl.unlocked :
           grid_state'.locked_tiles[ToGrid(system_offset', w)] = 1

\* C27: every placement (seed, prefill, forced, stochastic) targets a cell
\* whose locked_tiles is 1 or a cell the extension is about to create; every
\* locked_tiles value is in 1..unique_cell_count+1; a deadlock unlock leaves 1.
C27_NoDoubleLock ==
  /\ []LockedValuesInRange
  /\ [][PlacedOnEmptyCell /\ UnlockedReadOne]_vars

\* a step placed a tile and its deadlock resolution unlocked tiles, leaving
\* some tile locked
C27_Witness ==
  /\ last.source \in PlacingSources
  /\ last.dl.happened
  /\ last.dl.unlocked # {}
  /\ Cardinality(LockedCells(grid_state)) >= 1


\* ------------------------------------------------------------------- C28
\* the cells without a tile, next to a placed tile, that no colour fits
Contradictions ==
  {p \in Cells(grid_state.dimensions[1], grid_state.dimensions[2]) :
     /\ grid_state.locked_tiles[p] <= 1
     /\ grid_state.adjacency_weights[p] > 1
     /\ compute_viable_tiles_at_position(grid_state, ToWorld(system_offset, p),
                                         system_offset) = {}}

\* C28: check_for_contradiction returns the first cell in row-major order that
\* is unlocked, has adjacency_weights > 1 and an empty viable set, and returns
\* None exactly when there is no such cell.
C28_ContradictionScan ==
  probe.op = "check_for_contradiction"
     => /\ probe.found.some <=> Contradictions # {}
        /\ probe.found.some
              => /\ probe.found.pos \in Contradictions
                 /\ \A q \in Contradictions :
                       q = probe.found.pos \/ CellLess(probe.found.pos, q)

\* two contradictions in different rows and columns, the first one returned
C28_Witness ==
  /\ probe.op = "check_for_contradiction"
  /\ probe.found.some
  /\ \E q \in Contradictions : q[1] > probe.found.pos[1] /\ q[2] < probe.found.pos[2]


\* ------------------------------------------------------------------- C29
\* locked_tiles at a world position as the deadlock resolution of the step
\* found it: the grid before the step, with the tile the step placed and with
\* 1 in the cells the extension created
LockedBeforeResolution(w) ==
  IF last'.source \in PlacingSources /\ w = last'.position THEN last'.tile + 1
  ELSE IF Covered(grid_state, system_offset, w)
       THEN grid_state.locked_tiles[ToGrid(system_offset, w)]
       ELSE 1

WithinRadius(w) == Chebyshev(w, last'.dl.center) <= last'.dl.radius

UnlockedWithinRadius ==
  last'.dl.happened
     => /\ last'.dl.unlocked =
             {w \in WorldCells(grid_state', system_offset') :
                WithinRadius(w) /\ LockedBeforeResolution(w) > 1}
        /\ \A w \in WorldCells(grid_state', system_offset') :
              grid_state'.locked_tiles[ToGrid(system_offset', w)] =
                 IF WithinRadius(w) THEN 1 ELSE LockedBeforeResolution(w)

\* C29: a deadlock resolution with radius rho at cell X unlocks exactly the
\* cells that were locked within Chebyshev distance rho of X, reports them in
\* unlocked_positions, leaves 1 in them, and leaves locked_tiles of every cell
\* farther than rho from X as it was.
C29_UnlockSetAndFrame == [][UnlockedWithinRadius]_vars

\* a resolution that unlocked a tile and left a tile farther away locked
C29_Witness ==
  /\ last.dl.happened
  /\ last.dl.unlocked # {}
  /\ \E w \in LockedWorld : Chebyshev(w, last.dl.center) > last.dl.radius


\* ------------------------------------------------------------------- C30
\* an entry detected since the last deadlock resolution still has the tile it
\* was detected next to
QueuedNextToPlacedTile ==
  \A k \in 1..Len(forced_pipeline) :
     \E w \in LockedWorld : Chebyshev(w, forced_pipeline[k].coordinates) = 1

\* C30: when a step ran a deadlock resolution (after the contradiction scan
\* or in the retry of select_random_position) the forced pipeline is empty at
\* the end of the step; every queued entry was detected after the most
\* recent resolution, next to a tile that is still placed.
C30_NoForcedSurvivesDeadlock ==
  /\ last.dl.happened => forced_pipeline = << >>
  /\ QueuedNextToPlacedTile

\* a resolution that ran after the contradiction scan of a placement and left
\* a tile placed, with nothing queued
C30_Witness ==
  /\ last.dl.happened
  /\ last.source \in PlacingSources
  /\ last.dl.unlocked # {}
  /\ LockedWorld # {}
  /\ forced_pipeline = << >>


\* ------------------------------------------------------------------- C31
\* C31: a call of run_iteration that reached select_random_position returns:
\* after finitely many deadlock resolutions the retry places a tile or
\* reports an error.
C31_SelectionReturns == (pc = "select") ~> (pc = "idle")

\* a retry at a cell resolved before: the first resolution unlocked nothing
\* and raised the removal count, this one has the larger radius and unlocks
\* tiles, and the selection is entered again
C31_Witness ==
  /\ pc = "retry"
  /\ last.source = "retry"
  /\ last.dl.happened
  /\ last.dl.count >= 2
  /\ last.dl.unlocked # {}

\* ------------------------------------------------------------------- C32
\* the grid cells within Chebyshev distance 2 of the last placement
NearPlacement ==
  LET Near(position) ==
        {p \in Cells(grid_state.dimensions[1], grid_state.dimensions[2]) :
           /\ p[1] - position[1] \in -2..2
           /\ p[2] - position[2] \in -2..2}
  IN Near(ToGrid(system_offset, last.position))

PlacedWithoutDeadlock == last.source \in PlacingSources /\ ~last.dl.happened

\* C32: after a placement with no deadlock, the feasibility of every cell
\* within distance 2 of the placement, in every direction, is the mean of
\* count/tile_count over the windows that hold the cell.
C32_FeasibilityRefreshed ==
  PlacedWithoutDeadlock
     => \A p \in NearPlacement :
           grid_state.feasibility[p] = Aggregate(grid_state, feasibility_layer, p, 1)

\* ------------------------------------------------------------------- C33
\* the number of source tiles that match the locked contents of the window
\* whose top-left cell is given
ExactCount(g, source) ==
  Cardinality({r \in 1..Len(source_tiles) :
                 PatternMatches(WindowPattern(g, [rs |-> source[1], re |-> source[1] + 3,
                                                  cs |-> source[2], ce |-> source[2] + 3]),
                                source_tiles[r])})

\* the top-left cells of the windows that lie fully inside the grid
WindowsInside(g) ==
  {p \in Cells(g.dimensions[1], g.dimensions[2]) :
     p[1] + 2 < g.dimensions[1] /\ p[2] + 2 < g.dimensions[2]}

\* C33: between the calls (after construction, apply_prefill and every
\* run_iteration) the count layer has the shape of the grid and holds, at the
\* top-left cell of every window inside the grid, the number of source tiles
\* that match the window.
C33_CountsExact ==
  pc = "idle"
     => /\ feasibility_layer.dimensions = grid_state.dimensions
        /\ \A p \in WindowsInside(grid_state) :
              /\ p \in DOMAIN feasibility_layer.counts
              /\ feasibility_layer.counts[p] = ExactCount(grid_state, p)

\* ------------------------------------------------------------------- C34
\* the probability of a colour at a world position before the step: a cell
\* the grid did not hold yet starts from the padding value
ProbabilityBefore(color, w) ==
  IF Covered(grid_state, system_offset, w)
  THEN grid_state.tile_probabilities[color][ToGrid(system_offset, w)]
  ELSE padding_value_f64

\* the probability the claim gives a world position after tile t was placed
\* at position: multiplied by T[t-1, color, dr+R, dc+R] inside the window
ProbabilityByOffset(color, w, t, position) ==
  LET dr == w[1] - position[1]
      dc == w[2] - position[2]
      R == grid_extension_radius
  IN IF dr \in -R..R /\ dc \in -R..R
     THEN (IF probability_influence_matrices[t][color]
           THEN Times(ProbabilityBefore(color, w),
                      << "impact", t, color, dr + R, dc + R >>)
           ELSE Zero)
     ELSE ProbabilityBefore(color, w)

InfluenceByOffset ==
  (last'.source \in PlacingSources /\ ~last'.dl.happened)
     => \A color \in Colors :
          \A p \in Cells(grid_state'.dimensions[1], grid_state'.dimensions[2]) :
             grid_state'.tile_probabilities[color][p]
               = ProbabilityByOffset(color, ToWorld(system_offset', p), last'.tile,
                                     last'.position)

\* C34: a placement of tile t multiplies the probabilities of every grid cell
\* at offset (dr, dc) of the placement, |dr|, |dc| <= R, by
\* T[t-1, color, dr+R, dc+R] and changes no other cell, also when the grid
\* cuts the window at its top or left edge.
C34_InfluenceAligned == [][InfluenceByOffset]_vars

\* ------------------------------------------------------------------- C35
BoundsHoldOrigin ==
  grid_state.generation_bounds.some /\ contains(grid_state.generation_bounds, <<0, 0>>)

\* every world coordinate the grid covers lies inside generation_bounds
GridInsideBounds ==
  \A p \in Cells(grid_state.dimensions[1], grid_state.dimensions[2]) :
     contains(grid_state.generation_bounds, ToWorld(system_offset, p))

\* the cell a placing step placed on is a cell of the grid after the step
TargetCovered ==
  (BoundsHoldOrigin' /\ last'.source \in PlacingSources)
     => Covered(grid_state', system_offset', last'.position)

\* C35: with generation_bounds set and holding the origin, between the calls
\* the grid covers world coordinates of generation_bounds only, and every
\* placement lands on a cell the grid has after the extension.
C35_GridConfined ==
  /\ [](BoundsHoldOrigin /\ pc = "idle" => GridInsideBounds)
  /\ [][TargetCovered]_vars

\* a stochastic placement on the first grid row, which is the first row of
\* generation_bounds: the extension around it was cut at the bounds
C35_Witness ==
  /\ BoundsHoldOrigin
  /\ pc = "idle"
  /\ last.source = "stochastic"
  /\ last.position[1] = grid_state.generation_bounds.min[1]
  /\ ToGrid(system_offset, last.position)[1] = 0

\* ------------------------------------------------------------------- C36
\* C36: however far the coordinates handed to extend_if_needed spread in
\* unbounded mode, the grid never has more than MAX_GRID_DIMENSION rows or
\* columns.
C36_GridSizeCap ==
  pc = "extent"
     => /\ probe.dimensions[1] <= MAX_GRID_DIMENSION
        /\ probe.dimensions[2] <= MAX_GRID_DIMENSION

\* ------------------------------------------------------------------- C37
\* the stream elements the selector handed out in the step
ElementsDrawn ==
  {[seed |-> random_selector.seed, index |-> k] :
     k \in random_selector.drawn..(random_selector'.drawn - 1)}

\* C37: the seed colour, the positions and the tiles are drawn from one
\* stream, each draw taking the next element: no position or tile is drawn
\* with the stream element that picked the seed colour.
C37_SingleStream ==
  [][NextElement(InitialTileRng(DEFAULT_SEED)) \notin ElementsDrawn]_vars

\* ------------------------------------------------------------------- C38
\* C38: whenever run_iteration is at the stochastic selection some grid cell
\* is unlocked and inside generation_bounds, and no call returns
\* NoValidPositions, with and without bounds.
C38_CandidateExists ==
  /\ result # "error"
  /\ pc = "select" => ValidCells(Self) # {}

\* a bounded run at its last stochastic selection: one valid cell is left
C38_Witness ==
  /\ pc = "select"
  /\ grid_state.generation_bounds.some
  /\ Cardinality(ValidCells(Self)) = 1
  /\ TallySum(selection_tally) >= 1

\* ------------------------------------------------------------------- C39
TopKPasses == {"top_k_valid_indices", "top_k_from_indices"}

ReturnedCount ==
  Len(probe.returned) = Min(probe.k, Len(probe.given))

ReturnedDistinct ==
  \A a \in DOMAIN probe.returned, b \in DOMAIN probe.returned :
     probe.returned[a] = probe.returned[b] => a = b

ReturnedGiven == Range(probe.returned) \subseteq Range(probe.given)

ReturnedHighest ==
  \A p \in Range(probe.given) \ Range(probe.returned), q \in Range(probe.returned) :
     probe.matrix[p] <= probe.matrix[q]

\* C39: top_k_valid_indices returns exactly min(k, number of valid cells)
\* distinct indices, all of them valid, and no valid cell left out has a value
\* above that of a returned cell; k = 0 returns nothing. top_k_from_indices
\* does the same over the index list it is given.
C39_TopK ==
  pc = "top_k" /\ probe.op \in TopKPasses =>
    /\ ReturnedCount
    /\ ReturnedDistinct
    /\ ReturnedGiven
    /\ ReturnedHighest
    /\ (probe.k = 0 => probe.returned = << >>)

\* two of three valid cells are returned: an earlier entry was replaced, a
\* cell tied with a returned one is left out, and the highest cell of the
\* matrix is invalid
C39_Witness ==
  /\ pc = "top_k"
  /\ probe.op = "top_k_valid_indices"
  /\ probe.k = 2
  /\ Len(probe.given) = 3
  /\ Len(probe.returned) = 2
  /\ probe.returned[1] # probe.given[1]
  /\ \E p \in Range(probe.given) \ Range(probe.returned), q \in Range(probe.returned) :
        probe.matrix[p] = probe.matrix[q]
  /\ \E p \in TopKCells \ Range(probe.given) :
        \A q \in Range(probe.given) : probe.matrix[p] > probe.matrix[q]
  /\ ReturnedHighest

\* ------------------------------------------------------------------- C40
\* the top-left corners of the 3x3 windows the exemplar has, 1-based
WindowCorners(img) ==
  {c \in (1..Len(img)) \X (1..Len(img[1])) : c[1] + 2 <= Len(img) /\ c[2] + 2 <= Len(img[1])}

\* a window turned by quarter turns and then mirrored
Turned(tile, quarter_turns, mirrored) ==
  LET Mirror(t) == IF mirrored THEN reflect(t) ELSE t
  IN Mirror(IF quarter_turns = 0 THEN tile
            ELSE IF quarter_turns = 1 THEN rotate_90(tile)
            ELSE IF quarter_turns = 2 THEN rotate_90(rotate_90(tile))
            ELSE rotate_90(rotate_90(rotate_90(tile))))

\* the turns and mirrorings the flags ask for, in the order they are made
Variants(rotations, reflections) ==
  LET Turns == IF rotations THEN 4 ELSE 1
      Half == [n \in 1..Turns |-> [quarter_turns |-> n - 1, mirrored |-> FALSE]]
  IN IF reflections
     THEN Half \o [n \in 1..Turns |-> [quarter_turns |-> n - 1, mirrored |-> TRUE]]
     ELSE Half

\* where a tile first occurs: windows in row-major order, the variants of one
\* window in the order they are made; 0 when it never occurs
FirstOccurrence(tile, img, variants) ==
  LET Rank(c, v) == ((c[1] - 1) * Len(img[1]) + (c[2] - 1)) * Len(variants) + v
      Matching ==
        {Rank(cv[1], cv[2]) :
           cv \in {cv \in WindowCorners(img) \X DOMAIN variants :
                     Turned(WindowAt(img, cv[1][1], cv[1][2]),
                            variants[cv[2]].quarter_turns,
                            variants[cv[2]].mirrored) = tile}}
  IN IF Matching = {} THEN 0
     ELSE CHOOSE n \in Matching : \A m \in Matching : n <= m

NoTwoEqualTiles ==
  \A a \in DOMAIN probe.tiles, b \in DOMAIN probe.tiles :
     probe.tiles[a] = probe.tiles[b] => a = b

EveryVariantListed ==
  LET Listed(variants) ==
        \A c \in WindowCorners(probe.img), v \in DOMAIN variants :
           Turned(WindowAt(probe.img, c[1], c[2]), variants[v].quarter_turns,
                  variants[v].mirrored) \in Range(probe.tiles)
  IN Listed(Variants(probe.rotations, probe.reflections))

InFirstOccurrenceOrder ==
  LET Before(first, second) == first > 0 /\ second > 0 => first < second
      Ordered(variants) ==
        \A a \in DOMAIN probe.tiles :
           a + 1 \in DOMAIN probe.tiles =>
             Before(FirstOccurrence(probe.tiles[a], probe.img, variants),
                    FirstOccurrence(probe.tiles[a + 1], probe.img, variants))
  IN Ordered(Variants(probe.rotations, probe.reflections))

AtMostEightPerWindow ==
  Len(probe.tiles) <= 8 * Cardinality(WindowCorners(probe.img))

\* C40: extract_tiles returns a list with no two equal tiles that holds every
\* 3x3 window of the exemplar, its 90/180/270-degree rotations when rotations
\* are enabled and the horizontal reflection of each of those when
\* reflections are enabled, in first-occurrence order, and at most 8 tiles
\* per window of the exemplar.
C40_TileExtraction ==
  pc = "tiles" /\ probe.op = "extract_tiles" =>
    /\ NoTwoEqualTiles
    /\ EveryVariantListed
    /\ InFirstOccurrenceOrder
    /\ AtMostEightPerWindow

====
